---------------------------- MODULE Spec2Model ----------------------------
(***************************************************************************)
(* A model of the tjson crate's value model: Number (src/src/number.rs),   *)
(* Map (src/src/map.rs), Set (src/src/set.rs) and Value with its pointer   *)
(* navigation (src/src/value/mod.rs).                                      *)
(*                                                                         *)
(* Each component has its own specification over the shared variables:     *)
(*   SpecNumber   the Number constructors                                  *)
(*   SpecMap      insert and remove on Map and Set, under either backend   *)
(*   SpecOrder    equality and ordering of Values                          *)
(*   SpecPointer  pointer and pointer_mut on a document                    *)
(*   SpecCodec    encoding a Value to TJSON text and decoding the text     *)
(*   SpecDecode   decoding TJSON text written by hand                      *)
(*   SpecIter     iterating over a Set and serializing it                  *)
(*   SpecAccess   get, get_mut, the square brackets, and the predicates    *)
(*                and narrowing accessors of Value                         *)
(*                                                                         *)
(* The encoder and the decoder (ser.rs, de.rs) are declared in lib.rs and  *)
(* are not among the sources; they are modelled from sections 3, 4.4,      *)
(* 4.5, 4.6 and 6 of the specification.  The Index trait behind get and    *)
(* the square brackets (value/index.rs) is not among them either;          *)
(* SpecAccess models it from section 4.3.                                  *)
(***************************************************************************)
EXTENDS Integers, Sequences, FiniteSets, TLC

VARIABLES
    preserve_order,             \* the crate feature, fixed when the crate is built
    numA, numB,                 \* SpecNumber: the last two constructor calls
    component,                  \* SpecMap: whether the run works on maps or on the set
    mapA, mapB, firstInsA, lastMap,
    setA, lastSet,
    valA, valB, valC, ord,      \* SpecOrder: three Values and their comparisons
    doc, ptrCall, written,      \* SpecPointer: a document, the call made on it, the write
    codecValue, text, decoded,  \* SpecCodec: a Value, its encoding, the decoding of that
    accValue, access,           \* SpecAccess: a Value and the call that looked into it
    iterSet, iters, serialized  \* SpecIter: a Set, its iterators, its serialization

numberVars == <<numA, numB>>
mapVars == <<component, mapA, mapB, firstInsA, lastMap, setA, lastSet>>
orderVars == <<valA, valB, valC, ord>>
pointerVars == <<doc, ptrCall, written>>
codecVars == <<codecValue, text, decoded>>
accessVars == <<accValue, access>>
iterVars == <<iterSet, iters, serialized>>
vars == <<preserve_order, numberVars, mapVars, orderVars, pointerVars, codecVars, accessVars,
          iterVars>>

(***************************************************************************)
(* Bounds.  i64/u64 are modelled IntBits wide; a finite f64 is a multiple  *)
(* of one half, h/2 with |h| <= MaxFloatHalves, or negative zero.          *)
(***************************************************************************)
IntBits == 4
MaxFloatHalves == 12

RECURSIVE Pow2(_)
Pow2(n) == IF n = 0 THEN 1 ELSE 2 * Pow2(n - 1)

I64_MIN == -Pow2(IntBits - 1)
I64_MAX == Pow2(IntBits - 1) - 1
U64_MAX == Pow2(IntBits) - 1

I64 == I64_MIN .. I64_MAX
U64 == 0 .. U64_MAX

(***************************************************************************)
(* f64.  c is the class of the float, h twice its value when it is finite, *)
(* nz tells negative zero from positive zero (the two have different bits  *)
(* and compare equal).                                                     *)
(***************************************************************************)
Fin(h) == [c |-> "fin", h |-> h, nz |-> FALSE]
NEG_ZERO == [c |-> "fin", h |-> 0, nz |-> TRUE]
NAN == [c |-> "nan", h |-> 0, nz |-> FALSE]
INFINITY == [c |-> "inf", h |-> 0, nz |-> FALSE]
NEG_INFINITY == [c |-> "ninf", h |-> 0, nz |-> FALSE]

FiniteF64 == {Fin(h) : h \in -MaxFloatHalves .. MaxFloatHalves} \cup {NEG_ZERO}
F64 == FiniteF64 \cup {NAN, INFINITY, NEG_INFINITY}

is_finite(f) == f.c = "fin"
is_nan(f) == f.c = "nan"

\* IEEE comparison of two floats neither of which is NaN.
F64Lt(f, g) ==
    CASE f.c = "ninf" -> g.c # "ninf"
      [] f.c = "inf" -> FALSE
      [] OTHER -> \/ g.c = "inf"
                  \/ g.c = "fin" /\ f.h < g.h

F64Eq(f, g) == ~is_nan(f) /\ ~is_nan(g) /\ ~F64Lt(f, g) /\ ~F64Lt(g, f)

\* OrderedFloat<f64>: NaN equals NaN and sorts above every other float.
OrderedFloatEq(f, g) == IF is_nan(f) THEN is_nan(g) ELSE F64Eq(f, g)

OrderedFloatCmp(f, g) ==
    CASE is_nan(f) /\ is_nan(g) -> 0
      [] is_nan(f) -> 1
      [] is_nan(g) -> -1
      [] F64Lt(f, g) -> -1
      [] F64Lt(g, f) -> 1
      [] OTHER -> 0

(***************************************************************************)
(* Number { n: N },  enum N { Int(i64), UInt(u64), Float(OrderedFloat) }   *)
(***************************************************************************)
N_Int(i) == [kind |-> "Int", i |-> i]
N_UInt(u) == [kind |-> "UInt", u |-> u]
N_Float(f) == [kind |-> "Float", f |-> f]

\* N with UInt declared before Int.
NDiscriminant_UIntFirst(n) ==
    CASE n.kind = "UInt" -> 0
      [] n.kind = "Int" -> 1
      [] n.kind = "Float" -> 2

\* The position of each variant in the declaration of N.
NDiscriminant(n) ==
    CASE n.kind = "Int" -> 0
      [] n.kind = "UInt" -> 1
      [] n.kind = "Float" -> 2

IntCmp(x, y) == IF x < y THEN -1 ELSE IF x > y THEN 1 ELSE 0

\* An equality by mathematical value, across the kinds.
NumberEq_ByMagnitude(a, b) ==
    (IF a.kind = "Float" THEN a.f.h ELSE 2 * (IF a.kind = "Int" THEN a.i ELSE a.u))
    = (IF b.kind = "Float" THEN b.f.h ELSE 2 * (IF b.kind = "Int" THEN b.i ELSE b.u))

\* #[derive(PartialEq, Eq)]: the same variant holding equal payloads.
NumberEq(a, b) ==
    /\ a.kind = b.kind
    /\ CASE a.kind = "Int" -> a.i = b.i
         [] a.kind = "UInt" -> a.u = b.u
         [] a.kind = "Float" -> OrderedFloatEq(a.f, b.f)

\* #[derive(PartialOrd, Ord)]: by variant position first, then by payload.
NumberCmp(a, b) ==
    IF NDiscriminant(a) # NDiscriminant(b)
    THEN IntCmp(NDiscriminant(a), NDiscriminant(b))
    ELSE CASE a.kind = "Int" -> IntCmp(a.i, b.i)
           [] a.kind = "UInt" -> IntCmp(a.u, b.u)
           [] a.kind = "Float" -> OrderedFloatCmp(a.f, b.f)

NumberLt(a, b) == NumberCmp(a, b) = -1

\* Option / Result values.
None == [tag |-> "None"]
Some(x) == [tag |-> "Some", v |-> x]
Ok(x) == [tag |-> "Ok", v |-> x]
Err(msg) == [tag |-> "Err", msg |-> msg]
\* A value returned as it is, by a function that cannot fail.
Ret(x) == [tag |-> "Ret", v |-> x]

is_i64(n) == n.kind = "Int"
is_u64(n) == n.kind = "UInt"
is_f64(n) == n.kind = "Float"

\* An as_i64 that also narrows an unsigned integer that fits.
as_i64_NarrowsUInt(n) ==
    CASE n.kind = "Int" -> Some(n.i)
      [] n.kind = "UInt" /\ n.u <= I64_MAX -> Some(n.u)
      [] OTHER -> None

as_i64(n) == IF n.kind = "Int" THEN Some(n.i) ELSE None
as_u64(n) == IF n.kind = "UInt" THEN Some(n.u) ELSE None
as_f64(n) == IF n.kind = "Float" THEN Some(n.f) ELSE None

\* A from_f64 that tests only for NaN.
from_f64_NanOnly(f) == IF ~is_nan(f) THEN Some(N_Float(f)) ELSE None

from_f64(f) == IF is_finite(f) THEN Some(N_Float(f)) ELSE None

\* A from_signed that keeps the signed kind for every argument.
from_signed_AlwaysInt(i) == N_Int(i)

\* A from_signed that keeps zero in the signed kind.
from_signed_ZeroSigned(i) == IF i <= 0 THEN N_Int(i) ELSE N_UInt(i)

from_signed(i) == IF i < 0 THEN N_Int(i) ELSE N_UInt(i)

from_unsigned(u) == N_UInt(u)

visit_i64(value) == Ok(from_signed(value))
visit_u64(value) == Ok(from_unsigned(value))
visit_f64(value) ==
    IF from_f64(value).tag = "Some"
    THEN Ok(from_f64(value).v)
    ELSE Err("not a JSON number")

(***************************************************************************)
(* Strings are sequences of one-character strings.  Rust compares strings  *)
(* byte by byte; ByteOrder lists the characters the model uses in          *)
(* ascending byte value.                                                   *)
(***************************************************************************)
ByteOrder == <<"+", "-", "/", "0", "1", "a", "b", "~">>

Chars == {ByteOrder[i] : i \in 1 .. Len(ByteOrder)}

ByteOf(c) == CHOOSE i \in 1 .. Len(ByteOrder) : ByteOrder[i] = c

RECURSIVE IntSeqCmp(_, _)
IntSeqCmp(s, t) ==
    CASE s = <<>> /\ t = <<>> -> 0
      [] s = <<>> -> -1
      [] t = <<>> -> 1
      [] OTHER -> IF s[1] # t[1]
                  THEN IntCmp(s[1], t[1])
                  ELSE IntSeqCmp(Tail(s), Tail(t))

\* Ord for str and String: lexicographic over the bytes.
StrCmp(s, t) ==
    IntSeqCmp([i \in 1 .. Len(s) |-> ByteOf(s[i])],
              [i \in 1 .. Len(t) |-> ByteOf(t[i])])

(***************************************************************************)
(* enum Value.  A Set holds its elements, and an Object its (key, value)   *)
(* pairs, as a sequence in iteration order.                                *)
(***************************************************************************)
Undefined == [t |-> "Undefined"]
Bool(b) == [t |-> "Bool", b |-> b]
Data(d) == [t |-> "Data", d |-> d]
Number(n) == [t |-> "Number", n |-> n]
String(s) == [t |-> "String", s |-> s]
Timestamp(ts) == [t |-> "Timestamp", ts |-> ts]
Array(a) == [t |-> "Array", a |-> a]
SetV(set) == [t |-> "Set", set |-> set]
Object(m) == [t |-> "Object", m |-> m]

\* The position of each variant in the declaration of Value.
ValueDiscriminant(v) ==
    CASE v.t = "Undefined" -> 0
      [] v.t = "Bool" -> 1
      [] v.t = "Data" -> 2
      [] v.t = "Number" -> 3
      [] v.t = "String" -> 4
      [] v.t = "Timestamp" -> 5
      [] v.t = "Array" -> 6
      [] v.t = "Set" -> 7
      [] v.t = "Object" -> 8

RECURSIVE ValueEq(_, _), ValueSeqEq(_, _), MapImplEq(_, _)
RECURSIVE ValueCmp(_, _), ValueSeqCmp(_, _), MapImplCmp(_, _)

\* PartialEq of Vec<Value>, and of SetImpl<Value> (BTreeMap and
\* LinkedHashMap alike: equal lengths and equal entries, pairwise in
\* iteration order).
ValueSeqEq(s, t) ==
    /\ Len(s) = Len(t)
    /\ \A i \in 1 .. Len(s) : ValueEq(s[i], t[i])

\* PartialEq of MapImpl<String, Value>: equal lengths and equal (key, value)
\* entries, pairwise in iteration order.
MapImplEq(m1, m2) ==
    /\ Len(m1) = Len(m2)
    /\ \A i \in 1 .. Len(m1) :
          m1[i][1] = m2[i][1] /\ ValueEq(m1[i][2], m2[i][2])

\* #[derive(PartialEq)] struct Map(MapImpl)
MapEq(m1, m2) == MapImplEq(m1, m2)

\* #[derive(PartialEq, Eq)] enum Value
ValueEq(a, b) ==
    /\ a.t = b.t
    /\ CASE a.t = "Undefined" -> TRUE
         [] a.t = "Bool" -> a.b = b.b
         [] a.t = "Data" -> a.d = b.d
         [] a.t = "Number" -> NumberEq(a.n, b.n)
         [] a.t = "String" -> a.s = b.s
         [] a.t = "Timestamp" -> a.ts = b.ts
         [] a.t = "Array" -> ValueSeqEq(a.a, b.a)
         [] a.t = "Set" -> ValueSeqEq(a.set, b.set)
         [] a.t = "Object" -> MapEq(a.m, b.m)

\* Ord of Vec<Value> and of SetImpl<Value>: lexicographic.
ValueSeqCmp(s, t) ==
    CASE s = <<>> /\ t = <<>> -> 0
      [] s = <<>> -> -1
      [] t = <<>> -> 1
      [] OTHER -> IF ValueCmp(s[1], t[1]) # 0
                  THEN ValueCmp(s[1], t[1])
                  ELSE ValueSeqCmp(Tail(s), Tail(t))

\* Ord of MapImpl<String, Value>: lexicographic over the (key, value)
\* entries, a key deciding before its value.
MapImplCmp(m1, m2) ==
    CASE m1 = <<>> /\ m2 = <<>> -> 0
      [] m1 = <<>> -> -1
      [] m2 = <<>> -> 1
      [] StrCmp(m1[1][1], m2[1][1]) # 0 -> StrCmp(m1[1][1], m2[1][1])
      [] ValueCmp(m1[1][2], m2[1][2]) # 0 -> ValueCmp(m1[1][2], m2[1][2])
      [] OTHER -> MapImplCmp(Tail(m1), Tail(m2))

\* Ord for Map<String, Value>, which Value's derive(Ord) calls.
MapCmp(m1, m2) == MapImplCmp(m1, m2)

BoolCmp(x, y) == IF x = y THEN 0 ELSE IF y THEN -1 ELSE 1

\* #[derive(PartialOrd, Ord)] enum Value
ValueCmp(a, b) ==
    IF ValueDiscriminant(a) # ValueDiscriminant(b)
    THEN IntCmp(ValueDiscriminant(a), ValueDiscriminant(b))
    ELSE CASE a.t = "Undefined" -> 0
           [] a.t = "Bool" -> BoolCmp(a.b, b.b)
           [] a.t = "Data" -> IntSeqCmp(a.d, b.d)
           [] a.t = "Number" -> NumberCmp(a.n, b.n)
           [] a.t = "String" -> StrCmp(a.s, b.s)
           [] a.t = "Timestamp" -> IntCmp(a.ts, b.ts)
           [] a.t = "Array" -> ValueSeqCmp(a.a, b.a)
           [] a.t = "Set" -> ValueSeqCmp(a.set, b.set)
           [] a.t = "Object" -> MapCmp(a.m, b.m)

ValueLt(a, b) == ValueCmp(a, b) = -1

(***************************************************************************)
(* Map<String, Value> and Set<Value>.  preserve_order is the crate feature *)
(* that selects the backend: BTreeMap when off, LinkedHashMap when on.     *)
(* A map is the sequence of its (key, value) entries in iteration order, a *)
(* set the sequence of its elements in iteration order.                    *)
(***************************************************************************)
MapKeys(m) == {m[i][1] : i \in 1 .. Len(m)}

MapIndexOf(m, k) == CHOOSE i \in 1 .. Len(m) : m[i][1] = k

MapContainsKey(m, k) == \E i \in 1 .. Len(m) : m[i][1] = k

MapNew == <<>>

MapLen(m) == Len(m)

MapGet(m, k) == IF MapContainsKey(m, k) THEN Some(m[MapIndexOf(m, k)][2]) ELSE None

MapReplaceValue(m, k, v) == [m EXCEPT ![MapIndexOf(m, k)] = <<k, v>>]

\* The sorted backend: a new key takes its slot in ascending byte order.
BTreeMapInsert(m, k, v) ==
    IF MapContainsKey(m, k)
    THEN MapReplaceValue(m, k, v)
    ELSE SelectSeq(m, LAMBDA e : StrCmp(e[1], k) = -1)
         \o <<<<k, v>>>>
         \o SelectSeq(m, LAMBDA e : StrCmp(e[1], k) = 1)

\* The insertion-order backend: a new key goes last, a key already there
\* keeps its place.
LinkedMapInsert(m, k, v) ==
    IF MapContainsKey(m, k)
    THEN MapReplaceValue(m, k, v)
    ELSE Append(m, <<k, v>>)

\* An insert that adds an entry without looking for the key.
MapInsert_NoLookup(po, m, k, v) == Append(m, <<k, v>>)

\* An insert that moves a key already there to the back, under both backends.
MapInsert_MoveToBack(po, m, k, v) ==
    Append(SelectSeq(m, LAMBDA e : e[1] # k), <<k, v>>)

MapInsert(po, m, k, v) ==
    IF po THEN LinkedMapInsert(m, k, v) ELSE BTreeMapInsert(m, k, v)

MapRemove(m, k) == SelectSeq(m, LAMBDA e : e[1] # k)

SetNew == <<>>

SetLen(set) == Len(set)

SetIsEmpty(set) == Len(set) = 0

SetIter(set) == set

\* The sorted backend finds an element by Ord, the insertion-order backend
\* by Eq.
SetContains(po, set, x) ==
    IF po
    THEN \E i \in 1 .. Len(set) : ValueEq(set[i], x)
    ELSE \E i \in 1 .. Len(set) : ValueCmp(set[i], x) = 0

SetInsert(po, set, x) ==
    IF SetContains(po, set, x)
    THEN set
    ELSE IF po
         THEN Append(set, x)
         ELSE SelectSeq(set, LAMBDA e : ValueCmp(e, x) = -1)
              \o <<x>>
              \o SelectSeq(set, LAMBDA e : ValueCmp(e, x) = 1)

SetRemove(po, set, x) ==
    IF po
    THEN SelectSeq(set, LAMBDA e : ~ValueEq(e, x))
    ELSE SelectSeq(set, LAMBDA e : ValueCmp(e, x) # 0)

(***************************************************************************)
(* Map and Set operations.  A run works either on the two maps or on the   *)
(* set (component).  lastMap and lastSet record the last operation on mapA *)
(* and on setA; firstInsA lists the keys of mapA in the order in which     *)
(* each was first inserted since it was last absent.                       *)
(***************************************************************************)
KeyA == <<"a">>
KeyB == <<"b">>
KeyAA == <<"a", "a">>
MapKeyPool == {KeyA, KeyB, KeyAA}
MapValuePool == {Number(from_unsigned(1)), Number(from_unsigned(2))}

PosZero == Number(from_f64(Fin(0)).v)
NegZero == Number(from_f64(NEG_ZERO).v)
SetElementPool == {PosZero, NegZero, Number(from_unsigned(0)), Number(from_signed(-1))}

NoOp == [op |-> "none"]

InitMap ==
    /\ component \in {"map", "set"}
    /\ mapA = MapNew
    /\ mapB = MapNew
    /\ firstInsA = <<>>
    /\ lastMap = NoOp
    /\ setA = SetNew
    /\ lastSet = NoOp

MapInsertA ==
    /\ component = "map"
    /\ \E k \in MapKeyPool, v \in MapValuePool :
        /\ mapA' = MapInsert(preserve_order, mapA, k, v)
        /\ firstInsA' = IF MapContainsKey(mapA, k)
                        THEN firstInsA
                        ELSE Append(firstInsA, k)
        /\ lastMap' = [op |-> "insert", key |-> k, value |-> v,
                       present |-> MapContainsKey(mapA, k),
                       before |-> mapA]
    /\ UNCHANGED <<preserve_order, iterVars, accessVars, codecVars, numberVars, orderVars, pointerVars, component, mapB, setA, lastSet>>

MapRemoveA ==
    /\ component = "map"
    /\ \E k \in MapKeyPool :
        /\ mapA' = MapRemove(mapA, k)
        /\ firstInsA' = SelectSeq(firstInsA, LAMBDA x : x # k)
        /\ lastMap' = [op |-> "remove", key |-> k,
                       present |-> MapContainsKey(mapA, k),
                       before |-> mapA]
    /\ UNCHANGED <<preserve_order, iterVars, accessVars, codecVars, numberVars, orderVars, pointerVars, component, mapB, setA, lastSet>>

MapInsertB ==
    /\ component = "map"
    /\ \E k \in MapKeyPool, v \in MapValuePool :
        mapB' = MapInsert(preserve_order, mapB, k, v)
    /\ UNCHANGED <<preserve_order, iterVars, accessVars, codecVars, numberVars, orderVars, pointerVars, component, mapA, firstInsA, lastMap, setA, lastSet>>

SetInsertA ==
    /\ component = "set"
    /\ \E x \in SetElementPool :
        /\ setA' = SetInsert(preserve_order, setA, x)
        /\ lastSet' = [op |-> "insert", elem |-> x,
                       present |-> SetContains(preserve_order, setA, x),
                       before |-> setA]
    /\ UNCHANGED <<preserve_order, iterVars, accessVars, codecVars, numberVars, orderVars, pointerVars, component, mapA, mapB, firstInsA, lastMap>>

SetRemoveA ==
    /\ component = "set"
    /\ \E x \in SetElementPool :
        /\ setA' = SetRemove(preserve_order, setA, x)
        /\ lastSet' = [op |-> "remove", elem |-> x,
                       present |-> SetContains(preserve_order, setA, x),
                       before |-> setA]
    /\ UNCHANGED <<preserve_order, iterVars, accessVars, codecVars, numberVars, orderVars, pointerVars, component, mapA, mapB, firstInsA, lastMap>>

NextMap ==
    \/ MapInsertA
    \/ MapRemoveA
    \/ MapInsertB
    \/ SetInsertA
    \/ SetRemoveA

(***************************************************************************)
(* Comparing Values.  The three Values compared are drawn from a pool of   *)
(* scalars of every variant and of containers built from them; Sets and    *)
(* Objects are built by inserting into an empty one, so that their         *)
(* iteration order is one the backend produces.                            *)
(***************************************************************************)
RECURSIVE SetFromSeq(_, _)
SetFromSeq(po, xs) ==
    IF xs = <<>>
    THEN SetNew
    ELSE SetInsert(po, SetFromSeq(po, SubSeq(xs, 1, Len(xs) - 1)), xs[Len(xs)])

RECURSIVE MapFromSeq(_, _)
MapFromSeq(po, es) ==
    IF es = <<>>
    THEN MapNew
    ELSE MapInsert(po, MapFromSeq(po, SubSeq(es, 1, Len(es) - 1)),
                   es[Len(es)][1], es[Len(es)][2])

One == Number(from_unsigned(1))
OneFloat == Number(from_f64(Fin(2)).v)
MinusOne == Number(from_signed(-1))

OrdScalars ==
    {Undefined, Bool(FALSE), Bool(TRUE), Data(<<>>), Data(<<1>>),
     MinusOne, One, OneFloat, PosZero, NegZero,
     String(<<>>), String(KeyA), String(KeyAA), String(KeyB),
     Timestamp(0), Timestamp(1)}

OrdElements == {PosZero, NegZero, One}

OrdArrays ==
    {Array(<<>>)} \cup {Array(<<x>>) : x \in OrdElements \cup {Undefined}}
    \cup {Array(<<x, y>>) : x \in {PosZero, One}, y \in {NegZero, One}}

OrdSets(po) ==
    {SetV(SetFromSeq(po, xs)) :
        xs \in {<<>>} \cup {<<x>> : x \in OrdElements}
               \cup {<<x, y>> : x \in {PosZero, One}, y \in {NegZero, One}}}

OrdEntries == {<<KeyA, PosZero>>, <<KeyA, NegZero>>, <<KeyB, One>>}

OrdObjects(po) ==
    {Object(MapFromSeq(po, es)) :
        es \in {<<>>} \cup {<<e>> : e \in OrdEntries}
               \cup {<<e, f>> : e \in OrdEntries, f \in OrdEntries}}

OrdNested(po) ==
    {Array(<<Array(<<>>)>>),
     Array(<<Object(MapFromSeq(po, <<<<KeyB, One>>, <<KeyA, PosZero>>>>))>>),
     Object(MapFromSeq(po, <<<<KeyA, Array(<<NegZero>>)>>>>)),
     SetV(SetFromSeq(po, <<Array(<<PosZero>>), Undefined>>))}

OrdValues(po) ==
    OrdScalars \cup OrdArrays \cup OrdSets(po) \cup OrdObjects(po) \cup OrdNested(po)

NotCompared == [done |-> FALSE]

InitOrder ==
    /\ valA \in OrdValues(preserve_order)
    /\ valB \in OrdValues(preserve_order)
    /\ valC \in OrdValues(preserve_order)
    /\ ord = NotCompared

\* a == b, a.cmp(&b) and the like, for the three Values.
CompareValues ==
    /\ ~ord.done
    /\ ord' = [done |-> TRUE,
               eqAA |-> ValueEq(valA, valA), cmpAA |-> ValueCmp(valA, valA),
               eqAB |-> ValueEq(valA, valB), eqBA |-> ValueEq(valB, valA),
               eqBC |-> ValueEq(valB, valC), eqAC |-> ValueEq(valA, valC),
               cmpAB |-> ValueCmp(valA, valB), cmpBA |-> ValueCmp(valB, valA),
               cmpBC |-> ValueCmp(valB, valC), cmpAC |-> ValueCmp(valA, valC)]
    /\ UNCHANGED <<preserve_order, iterVars, accessVars, codecVars, numberVars, mapVars, pointerVars, valA, valB, valC>>

NextOrder == CompareValues

(***************************************************************************)
(* Value::pointer and Value::pointer_mut.  A reference into the tree is    *)
(* the path from the root to the node: one step per object key or array    *)
(* position.                                                               *)
(***************************************************************************)
KeyStep(k) == [key |-> k]
IndexStep(i) == [idx |-> i]

\* str::starts_with(char)
starts_with(s, c) == Len(s) > 0 /\ s[1] = c

\* str::split(char): the pieces between the separators, one more than
\* there are separators.
RECURSIVE split(_, _)
split(s, sep) ==
    IF \E i \in 1 .. Len(s) : s[i] = sep
    THEN LET i == CHOOSE i \in 1 .. Len(s) :
                      s[i] = sep /\ \A j \in 1 .. i - 1 : s[j] # sep
         IN  <<SubSeq(s, 1, i - 1)>> \o split(SubSeq(s, i + 1, Len(s)), sep)
    ELSE <<s>>

\* str::replace: every non-overlapping match of from, left to right.
RECURSIVE replace(_, _, _)
replace(s, from, to) ==
    IF Len(s) < Len(from)
    THEN s
    ELSE IF SubSeq(s, 1, Len(from)) = from
         THEN to \o replace(SubSeq(s, Len(from) + 1, Len(s)), from, to)
         ELSE <<s[1]>> \o replace(Tail(s), from, to)

Digits == <<"0", "1", "2", "3", "4", "5", "6", "7", "8", "9">>
IsDigit(c) == \E d \in 1 .. Len(Digits) : Digits[d] = c
DigitValue(c) == (CHOOSE d \in 1 .. Len(Digits) : Digits[d] = c) - 1

RECURSIVE DecimalValue(_)
DecimalValue(s) ==
    IF s = <<>> THEN 0
    ELSE 10 * DecimalValue(SubSeq(s, 1, Len(s) - 1)) + DigitValue(s[Len(s)])

\* str::parse::<usize>(): an optional '+', then one decimal digit or more.
\* (No string of the model is long enough to overflow usize.)
parse_usize(s) ==
    LET digits == IF starts_with(s, "+") THEN Tail(s) ELSE s
    IN  IF digits # <<>> /\ \A i \in 1 .. Len(digits) : IsDigit(digits[i])
        THEN Ok(DecimalValue(digits))
        ELSE Err("ParseIntError")

\* A parse_index that leaves the syntax to str::parse.
parse_index_ParseOnly(s) ==
    IF parse_usize(s).tag = "Ok" THEN Some(parse_usize(s).v) ELSE None

parse_index(s) ==
    IF starts_with(s, "+") \/ (starts_with(s, "0") /\ Len(s) # 1)
    THEN None
    ELSE IF parse_usize(s).tag = "Ok" THEN Some(parse_usize(s).v) ELSE None

\* A get that counts positions from one.
VecGet_OneBased(list, x) == IF 1 <= x /\ x <= Len(list) THEN Some(list[x]) ELSE None

\* Vec::get and Vec::get_mut
VecGet(list, x) == IF x < Len(list) THEN Some(list[x + 1]) ELSE None

\* Tokens with the two replacements in the other order.
Tokens_TildeFirst(p) ==
    LET pieces == Tail(split(p, "/"))
    IN  [i \in 1 .. Len(pieces) |->
            replace(replace(pieces[i], <<"~", "0">>, <<"~">>), <<"~", "1">>, <<"/">>)]

\* pointer.split('/').skip(1).map(|x| x.replace("~1", "/").replace("~0", "~"))
Tokens(p) ==
    LET pieces == Tail(split(p, "/"))
    IN  [i \in 1 .. Len(pieces) |->
            replace(replace(pieces[i], <<"~", "1">>, <<"/">>), <<"~", "0">>, <<"~">>)]

\* A loop that passes over a token it cannot resolve.
RECURSIVE PointerWalk_SkipUnresolved(_, _, _)
PointerWalk_SkipUnresolved(target, path, tokens) ==
    IF tokens = <<>>
    THEN Some(path)
    ELSE LET token == tokens[1] IN
         CASE target.t = "Object" /\ MapGet(target.m, token).tag = "Some" ->
                  PointerWalk_SkipUnresolved(MapGet(target.m, token).v,
                                             Append(path, KeyStep(token)), Tail(tokens))
           [] /\ target.t = "Array"
              /\ parse_index(token).tag = "Some"
              /\ VecGet(target.a, parse_index(token).v).tag = "Some" ->
                  PointerWalk_SkipUnresolved(VecGet(target.a, parse_index(token).v).v,
                                             Append(path, IndexStep(parse_index(token).v)),
                                             Tail(tokens))
           [] OTHER -> PointerWalk_SkipUnresolved(target, path, Tail(tokens))

\* The loop of pointer over the tokens, from the node target at path.
RECURSIVE PointerWalk(_, _, _)
PointerWalk(target, path, tokens) ==
    IF tokens = <<>>
    THEN Some(path)
    ELSE LET token == tokens[1] IN
         CASE target.t = "Object" ->
                  IF MapGet(target.m, token).tag = "Some"
                  THEN PointerWalk(MapGet(target.m, token).v,
                                   Append(path, KeyStep(token)), Tail(tokens))
                  ELSE None
           [] target.t = "Array" ->
                  IF parse_index(token).tag = "Some"
                     /\ VecGet(target.a, parse_index(token).v).tag = "Some"
                  THEN PointerWalk(VecGet(target.a, parse_index(token).v).v,
                                   Append(path, IndexStep(parse_index(token).v)),
                                   Tail(tokens))
                  ELSE None
           [] OTHER -> None

\* A walk of pointer_mut that takes any decimal for an index.
RECURSIVE PointerMutWalk_AnyDecimal(_, _, _)
PointerMutWalk_AnyDecimal(target, path, tokens) ==
    IF tokens = <<>>
    THEN Some(path)
    ELSE LET token == tokens[1] IN
         CASE target.t = "Object" ->
                  IF MapGet(target.m, token).tag = "Some"
                  THEN PointerMutWalk_AnyDecimal(MapGet(target.m, token).v,
                                                 Append(path, KeyStep(token)), Tail(tokens))
                  ELSE None
           [] target.t = "Array" ->
                  IF parse_usize(token).tag = "Ok"
                     /\ VecGet(target.a, parse_usize(token).v).tag = "Some"
                  THEN PointerMutWalk_AnyDecimal(VecGet(target.a, parse_usize(token).v).v,
                                                 Append(path, IndexStep(parse_usize(token).v)),
                                                 Tail(tokens))
                  ELSE None
           [] OTHER -> None

\* The loop of pointer_mut.
RECURSIVE PointerMutWalk(_, _, _)
PointerMutWalk(target, path, tokens) ==
    IF tokens = <<>>
    THEN Some(path)
    ELSE LET token == tokens[1]
             target_once == target
         IN
         CASE target_once.t = "Object" ->
                  IF MapGet(target_once.m, token).tag = "Some"
                  THEN PointerMutWalk(MapGet(target_once.m, token).v,
                                      Append(path, KeyStep(token)), Tail(tokens))
                  ELSE None
           [] target_once.t = "Array" ->
                  IF parse_index(token).tag = "Some"
                     /\ VecGet(target_once.a, parse_index(token).v).tag = "Some"
                  THEN PointerMutWalk(VecGet(target_once.a, parse_index(token).v).v,
                                      Append(path, IndexStep(parse_index(token).v)),
                                      Tail(tokens))
                  ELSE None
           [] OTHER -> None

\* A pointer without the case of the empty string.
pointer_NoEmptyCase(self, p) ==
    IF ~starts_with(p, "/") THEN None ELSE PointerWalk(self, <<>>, Tokens(p))

\* A pointer that does not ask for the leading '/'.
pointer_NoSlashCheck(self, p) ==
    IF p = <<>> THEN Some(<<>>) ELSE PointerWalk(self, <<>>, Tokens(p))

pointer(self, p) ==
    IF p = <<>> THEN Some(<<>>)
    ELSE IF ~starts_with(p, "/") THEN None
    ELSE PointerWalk(self, <<>>, Tokens(p))

pointer_mut(self, p) ==
    IF p = <<>> THEN Some(<<>>)
    ELSE IF ~starts_with(p, "/") THEN None
    ELSE PointerMutWalk(self, <<>>, Tokens(p))

\* The node a reference designates.
RECURSIVE NodeAt(_, _)
NodeAt(v, path) ==
    IF path = <<>> THEN v
    ELSE IF v.t = "Object"
         THEN NodeAt(MapGet(v.m, path[1].key).v, Tail(path))
         ELSE NodeAt(v.a[path[1].idx + 1], Tail(path))

\* A write that replaces the container holding the node.
ReplaceAt_Container(v, path, w) ==
    IF Len(path) <= 1 THEN w
    ELSE IF v.t = "Object"
         THEN Object(MapReplaceValue(v.m, path[1].key, w))
         ELSE Array([v.a EXCEPT ![path[1].idx + 1] = w])

\* The tree after *reference = w, for the reference at path: the entry or
\* the element on the path is assigned in place.
RECURSIVE ReplaceAt(_, _, _)
ReplaceAt(v, path, w) ==
    IF path = <<>> THEN w
    ELSE IF v.t = "Object"
         THEN Object(MapReplaceValue(v.m, path[1].key,
                                     ReplaceAt(MapGet(v.m, path[1].key).v, Tail(path), w)))
         ELSE Array([v.a EXCEPT ![path[1].idx + 1] =
                                     ReplaceAt(v.a[path[1].idx + 1], Tail(path), w)])

(***************************************************************************)
(* The predicates and narrowing accessors of Value (value/mod.rs).  A      *)
(* borrowed map, vector or string is modelled by its content.              *)
(***************************************************************************)
Value_as_object(self) == IF self.t = "Object" THEN Some(self.m) ELSE None
Value_as_object_mut(self) == IF self.t = "Object" THEN Some(self.m) ELSE None
Value_is_object(self) == Value_as_object(self).tag = "Some"

Value_as_array(self) == IF self.t = "Array" THEN Some(self.a) ELSE None
Value_as_array_mut(self) == IF self.t = "Array" THEN Some(self.a) ELSE None
Value_is_array(self) == Value_as_array(self).tag = "Some"

Value_as_str(self) == IF self.t = "String" THEN Some(self.s) ELSE None
Value_is_string(self) == Value_as_str(self).tag = "Some"

Value_is_number(self) == self.t = "Number"

Value_is_i64(self) == IF self.t = "Number" THEN is_i64(self.n) ELSE FALSE
Value_is_u64(self) == IF self.t = "Number" THEN is_u64(self.n) ELSE FALSE

\* An is_f64 that is the complement of is_i64 and is_u64.
Value_is_f64_NotInteger(self) == ~Value_is_i64(self) /\ ~Value_is_u64(self)

Value_is_f64(self) == IF self.t = "Number" THEN is_f64(self.n) ELSE FALSE

Value_as_i64(self) == IF self.t = "Number" THEN as_i64(self.n) ELSE None
Value_as_u64(self) == IF self.t = "Number" THEN as_u64(self.n) ELSE None
Value_as_f64(self) == IF self.t = "Number" THEN as_f64(self.n) ELSE None

Value_as_bool(self) == IF self.t = "Bool" THEN Some(self.b) ELSE None
Value_is_boolean(self) == Value_as_bool(self).tag = "Some"

\* Some(()) for Undefined.
Value_as_undefined(self) == IF self.t = "Undefined" THEN Some(<<>>) ELSE None
Value_is_undefined(self) == Value_as_undefined(self).tag = "Some"

(***************************************************************************)
(* get, get_mut and the square brackets.  An index is a string key or a    *)
(* usize position (KeyStep, IndexStep).  The Index trait (value/index.rs)  *)
(* is not among the sources: index_into and the operator follow section    *)
(* 4.3 of the specification and the documentation of Value::get.           *)
(***************************************************************************)
\* An index_into that takes a Set for an Array.
index_into_SetAsArray(index, v) ==
    IF "key" \in DOMAIN index
    THEN IF v.t = "Object" THEN MapGet(v.m, index.key) ELSE None
    ELSE CASE v.t = "Array" -> VecGet(v.a, index.idx)
           [] v.t = "Set" -> VecGet(v.set, index.idx)
           [] OTHER -> None

\* A string key is valid only on an Object, a position only on an Array.
index_into(index, v) ==
    IF "key" \in DOMAIN index
    THEN IF v.t = "Object" THEN MapGet(v.m, index.key) ELSE None
    ELSE IF v.t = "Array" THEN VecGet(v.a, index.idx) ELSE None

index_into_mut(index, v) ==
    IF "key" \in DOMAIN index
    THEN IF v.t = "Object" THEN MapGet(v.m, index.key) ELSE None
    ELSE IF v.t = "Array" THEN VecGet(v.a, index.idx) ELSE None

get(self, index) == index_into(index, self)
get_mut(self, index) == index_into_mut(index, self)

\* Square brackets that hand back the value indexed when the child is absent.
IndexOperator_SelfWhenAbsent(self, index) ==
    IF index_into(index, self).tag = "Some" THEN index_into(index, self).v ELSE self

\* self[index]: Undefined where get would return None.
IndexOperator(self, index) ==
    IF index_into(index, self).tag = "Some" THEN index_into(index, self).v ELSE Undefined

(***************************************************************************)
(* The documents and pointer strings of SpecPointer.  A run resolves one   *)
(* pointer string against one document.                                    *)
(***************************************************************************)
MaxPtrLen == 3

PtrAlphabet == {"/", "~", "0", "1", "a", "+", "-"}

RECURSIVE StringsOfLen(_)
StringsOfLen(n) ==
    IF n = 0 THEN {<<>>}
    ELSE {Append(s, c) : s \in StringsOfLen(n - 1), c \in PtrAlphabet}

\* Pointers longer than MaxPtrLen, into the nested documents.
DeepPointers ==
    {<<"/", "a", "/", "b", "/", "1">>, <<"/", "a", "/", "b", "/", "a">>,
     <<"/", "a", "/", "b">>, <<"/", "0", "/", "0">>, <<"/", "1", "/", "a">>,
     <<"/", "~", "0", "1">>, <<"/", "a", "~", "1", "b">>, <<"a", "/", "b", "/", "1">>,
     <<"0", "/", "0">>, <<"/", "a", "/", "0", "1">>, <<"/", "a", "/", "+", "1">>,
     <<"/", "~", "0", "a">>}

Pointers == UNION {StringsOfLen(n) : n \in 0 .. MaxPtrLen} \cup DeepPointers

PtrLeaves == {Undefined, One, String(KeyA), SetV(SetNew)}

PtrKeyPool == {KeyA, <<"0">>, <<"1">>, <<>>, <<"/">>, <<"~">>, <<"~", "1">>}

PtrEntries == {<<k, One>> : k \in PtrKeyPool} \cup {<<KeyA, Undefined>>}

PtrArrays ==
    {Array(<<>>)} \cup {Array(<<x>>) : x \in {Undefined, One}}
    \cup {Array(<<x, y>>) : x \in {Undefined, One}, y \in {One, String(KeyA)}}

PtrObjects(po) ==
    {Object(MapFromSeq(po, es)) :
        es \in {<<>>} \cup {<<e>> : e \in PtrEntries}
               \cup {<<e, f>> : e \in PtrEntries, f \in PtrEntries}}

PtrNested(po) ==
    {Object(MapFromSeq(po, <<<<KeyA, Object(MapFromSeq(po,
        <<<<KeyB, Array(<<String(KeyA), String(KeyAA)>>)>>>>))>>>>)),
     Object(MapFromSeq(po, <<<<KeyA, Array(<<One, Undefined>>)>>, <<<<"0">>, One>>>>)),
     Object(MapFromSeq(po, <<<<KeyA, SetV(SetNew)>>, <<<<"a", "/", "b">>, One>>>>)),
     Array(<<Array(<<One>>), Object(MapFromSeq(po, <<<<KeyA, One>>>>))>>),
     Array(<<One, String(KeyA), Array(<<>>)>>),
     Object(MapFromSeq(po, <<<<<<"~", "a">>, One>>, <<KeyA, One>>>>))}

PtrDocs(po) == PtrLeaves \cup PtrArrays \cup PtrObjects(po) \cup PtrNested(po)

NoCallYet == [fn |-> "none"]

\* The Values written through a reference.
WriteValues == {Undefined, String(KeyB), Array(<<One, String(KeyA)>>)}

\* No write yet; before is the document as it was built.
NotWritten(v) == [done |-> FALSE, before |-> v]

InitPointer ==
    /\ doc \in PtrDocs(preserve_order)
    /\ ptrCall = NoCallYet
    /\ written = NotWritten(doc)

CallPointer ==
    /\ ptrCall.fn = "none"
    /\ \E p \in Pointers :
        ptrCall' = [fn |-> "pointer", ptr |-> p, out |-> pointer(doc, p)]
    /\ UNCHANGED <<preserve_order, iterVars, accessVars, codecVars, numberVars, mapVars,
                   orderVars, doc, written>>

CallPointerMut ==
    /\ ptrCall.fn = "none"
    /\ \E p \in Pointers :
        ptrCall' = [fn |-> "pointer_mut", ptr |-> p, out |-> pointer_mut(doc, p)]
    /\ UNCHANGED <<preserve_order, iterVars, accessVars, codecVars, numberVars, mapVars,
                   orderVars, doc, written>>

\* *value.pointer_mut(p).unwrap() = w: the assignment through the reference
\* pointer_mut returned.
WriteThrough ==
    /\ ptrCall.fn = "pointer_mut"
    /\ ptrCall.out.tag = "Some"
    /\ ~written.done
    /\ \E w \in WriteValues :
        /\ doc' = ReplaceAt(doc, ptrCall.out.v, w)
        /\ written' = [done |-> TRUE, before |-> doc, w |-> w]
    /\ UNCHANGED <<preserve_order, iterVars, accessVars, codecVars, numberVars, mapVars,
                   orderVars, ptrCall>>

NextPointer ==
    \/ CallPointer
    \/ CallPointerMut
    \/ WriteThrough

(***************************************************************************)
(* SpecAccess: one Value and the calls that look into it.  The square      *)
(* brackets chain: each application indexes the Value the one before       *)
(* returned.                                                               *)
(***************************************************************************)
MaxChain == 3

AccNumbers ==
    {Number(from_signed(i)) : i \in I64_MIN .. I64_MAX}
    \cup {Number(from_unsigned(u)) : u \in 0 .. U64_MAX}
    \cup {Number(from_f64(f).v) : f \in FiniteF64}

AccScalars ==
    AccNumbers
    \cup {Undefined, Bool(FALSE), Bool(TRUE), Data(<<>>), Data(<<1>>),
          String(<<>>), String(KeyA), Timestamp(0)}

\* ["a", "b", "aa"], as ["A", "B", "C"] in the documentation of get.
AccThree == Array(<<String(KeyA), String(KeyB), String(KeyAA)>>)

AccContainers(po) ==
    {Array(<<>>), AccThree, Array(<<Undefined, One>>),
     Array(<<Object(MapFromSeq(po, <<<<KeyA, Object(MapFromSeq(po,
         <<<<KeyB, One>>>>))>>>>))>>),
     Array(<<Array(<<One, MinusOne>>)>>),
     SetV(SetNew), SetV(SetFromSeq(po, <<One, String(KeyA)>>)),
     Object(MapNew),
     Object(MapFromSeq(po, <<<<KeyA, One>>, <<KeyB, Undefined>>>>)),
     Object(MapFromSeq(po, <<<<<<"0">>, One>>, <<<<"1">>, OneFloat>>>>)),
     Object(MapFromSeq(po, <<<<KeyA, AccThree>>,
                             <<KeyB, SetV(SetFromSeq(po, <<One>>))>>>>)),
     Object(MapFromSeq(po, <<<<KeyA, Object(MapFromSeq(po,
         <<<<KeyB, Array(<<One>>)>>>>))>>>>))}

AccValues(po) == AccScalars \cup AccContainers(po)

AccIndexes ==
    {KeyStep(k) : k \in {KeyA, KeyB, <<"0">>, <<"1">>}}
    \cup {IndexStep(i) : i \in 0 .. 3}

NotAccessed == [fn |-> "none"]

InitAccess ==
    /\ accValue \in AccValues(preserve_order)
    /\ access = NotAccessed

CallGet ==
    /\ access.fn = "none"
    /\ \E index \in AccIndexes :
        access' = [fn |-> "get", index |-> index, out |-> get(accValue, index)]
    /\ UNCHANGED <<preserve_order, iterVars, numberVars, mapVars, orderVars, pointerVars, codecVars,
                   accValue>>

CallGetMut ==
    /\ access.fn = "none"
    /\ \E index \in AccIndexes :
        access' = [fn |-> "get_mut", index |-> index, out |-> get_mut(accValue, index)]
    /\ UNCHANGED <<preserve_order, iterVars, numberVars, mapVars, orderVars, pointerVars, codecVars,
                   accValue>>

\* accValue[i1][i2]...: one more pair of brackets on what the last pair returned.
CallIndex ==
    /\ access.fn \in {"none", "index"}
    /\ \E index \in AccIndexes :
        LET chain == IF access.fn = "index" THEN access.chain ELSE <<>>
            from == IF access.fn = "index" THEN access.out ELSE accValue
        IN  /\ Len(chain) < MaxChain
            /\ access' = [fn |-> "index", chain |-> Append(chain, index),
                          from |-> from, out |-> IndexOperator(from, index)]
    /\ UNCHANGED <<preserve_order, iterVars, numberVars, mapVars, orderVars, pointerVars, codecVars,
                   accValue>>

\* Every predicate and every narrowing accessor, on the same Value.
CallPredicates ==
    /\ access.fn = "none"
    /\ access' = [fn |-> "predicates",
                  is_object |-> Value_is_object(accValue),
                  as_object |-> Value_as_object(accValue),
                  as_object_mut |-> Value_as_object_mut(accValue),
                  is_array |-> Value_is_array(accValue),
                  as_array |-> Value_as_array(accValue),
                  as_array_mut |-> Value_as_array_mut(accValue),
                  is_string |-> Value_is_string(accValue),
                  as_str |-> Value_as_str(accValue),
                  is_number |-> Value_is_number(accValue),
                  is_i64 |-> Value_is_i64(accValue),
                  is_u64 |-> Value_is_u64(accValue),
                  is_f64 |-> Value_is_f64(accValue),
                  as_i64 |-> Value_as_i64(accValue),
                  as_u64 |-> Value_as_u64(accValue),
                  as_f64 |-> Value_as_f64(accValue),
                  is_boolean |-> Value_is_boolean(accValue),
                  as_bool |-> Value_as_bool(accValue),
                  is_undefined |-> Value_is_undefined(accValue),
                  as_undefined |-> Value_as_undefined(accValue)]
    /\ UNCHANGED <<preserve_order, iterVars, numberVars, mapVars, orderVars, pointerVars, codecVars,
                   accValue>>

NextAccess ==
    \/ CallGet
    \/ CallGetMut
    \/ CallIndex
    \/ CallPredicates

(***************************************************************************)
(* Iteration over a Set (set.rs).  Iter wraps the backend's iterator over  *)
(* the entries, a double-ended range: lo and hi are the positions of the   *)
(* first and the last entry not yet yielded.                               *)
(***************************************************************************)
\* Set::iter
Set_iter(self) == [set |-> self, lo |-> 1, hi |-> Len(self)]

\* Iterator::next: the front entry's key, and the iterator after the call.
Iter_next(self) ==
    IF self.lo <= self.hi
    THEN [item |-> Some(self.set[self.lo]), iter |-> [self EXCEPT !.lo = @ + 1]]
    ELSE [item |-> None, iter |-> self]

\* A next_back that takes from the front.
Iter_next_back_FromFront(self) ==
    IF self.lo <= self.hi
    THEN [item |-> Some(self.set[self.lo]), iter |-> [self EXCEPT !.lo = @ + 1]]
    ELSE [item |-> None, iter |-> self]

\* DoubleEndedIterator::next_back
Iter_next_back(self) ==
    IF self.lo <= self.hi
    THEN [item |-> Some(self.set[self.hi]), iter |-> [self EXCEPT !.hi = @ - 1]]
    ELSE [item |-> None, iter |-> self]

\* ExactSizeIterator::len
Iter_len(self) == self.hi - self.lo + 1

\* Iterator::collect into a Vec
RECURSIVE Collect(_)
Collect(it) ==
    IF Iter_next(it).item.tag = "None" THEN <<>>
    ELSE <<Iter_next(it).item.v>> \o Collect(Iter_next(it).iter)

\* Serialize for Set<Value>: the Vec collected from iter() is what is
\* serialized, as a sequence of its elements.
Set_serialize(self) == Collect(Set_iter(self))

(***************************************************************************)
(* SpecIter: a Set that is not mutated, two iterators over it, and its     *)
(* serialization.  An iterator records what next and next_back yielded,    *)
(* and whether a call has returned None.                                   *)
(***************************************************************************)
IterElements == {One, MinusOne, OneFloat, String(KeyA), Bool(TRUE), Array(<<One>>)}

IterSets(po) ==
    {SetNew}
    \cup {SetFromSeq(po, <<x>>) : x \in IterElements}
    \cup {SetFromSeq(po, <<x, y>>) : x, y \in IterElements}
    \cup {SetFromSeq(po, <<String(KeyA), One, MinusOne>>),
          SetFromSeq(po, <<Bool(TRUE), Array(<<One>>), OneFloat>>)}

IterNames == {"first", "second"}

NoIter == [made |-> FALSE]
NotSerialized == [done |-> FALSE]

InitIter ==
    /\ iterSet \in IterSets(preserve_order)
    /\ iters = [name \in IterNames |-> NoIter]
    /\ serialized = NotSerialized

\* set.iter()
CallIter ==
    /\ \E name \in IterNames :
        /\ ~iters[name].made
        /\ iters' = [iters EXCEPT ![name] =
                        [made |-> TRUE, iter |-> Set_iter(iterSet),
                         len |-> Iter_len(Set_iter(iterSet)),
                         forward |-> <<>>, backward |-> <<>>, ended |-> FALSE]]
    /\ UNCHANGED <<preserve_order, numberVars, mapVars, orderVars, pointerVars, codecVars,
                   accessVars, iterSet, serialized>>

\* iter.next()
CallNext ==
    /\ \E name \in IterNames :
        /\ iters[name].made
        /\ ~iters[name].ended
        /\ LET r == Iter_next(iters[name].iter)
           IN  iters' = [iters EXCEPT ![name] =
                  IF r.item.tag = "Some"
                  THEN [@ EXCEPT !.iter = r.iter, !.forward = Append(@, r.item.v)]
                  ELSE [@ EXCEPT !.iter = r.iter, !.ended = TRUE]]
    /\ UNCHANGED <<preserve_order, numberVars, mapVars, orderVars, pointerVars, codecVars,
                   accessVars, iterSet, serialized>>

\* iter.next_back()
CallNextBack ==
    /\ \E name \in IterNames :
        /\ iters[name].made
        /\ ~iters[name].ended
        /\ LET r == Iter_next_back(iters[name].iter)
           IN  iters' = [iters EXCEPT ![name] =
                  IF r.item.tag = "Some"
                  THEN [@ EXCEPT !.iter = r.iter, !.backward = Append(@, r.item.v)]
                  ELSE [@ EXCEPT !.iter = r.iter, !.ended = TRUE]]
    /\ UNCHANGED <<preserve_order, numberVars, mapVars, orderVars, pointerVars, codecVars,
                   accessVars, iterSet, serialized>>

\* set.serialize(serializer)
CallSerialize ==
    /\ ~serialized.done
    /\ serialized' = [done |-> TRUE, seq |-> Set_serialize(iterSet)]
    /\ UNCHANGED <<preserve_order, numberVars, mapVars, orderVars, pointerVars, codecVars,
                   accessVars, iterSet, iters>>

NextIter ==
    \/ CallIter
    \/ CallNext
    \/ CallNextBack
    \/ CallSerialize

(***************************************************************************)
(* TJSON text.  The literal forms of the scalars (sections 3 and 4.6):     *)
(* integers as bare decimal, floats with a decimal point, binary data as   *)
(* base64, timestamps as RFC3339 UTC.                                      *)
(***************************************************************************)
RECURSIVE DecimalDigits(_)
DecimalDigits(n) ==
    IF n < 10
    THEN <<Digits[n + 1]>>
    ELSE DecimalDigits(n \div 10) \o <<Digits[(n % 10) + 1]>>

IsDecimal(s) == s # <<>> /\ \A i \in 1 .. Len(s) : IsDigit(s[i])

\* Integers as bare decimal.
FormatInteger(i) == IF i < 0 THEN <<"-">> \o DecimalDigits(-i) ELSE DecimalDigits(i)

\* A decimal integer: an optional '-', then one digit or more.
IsDecimalInteger(s) == IsDecimal(IF starts_with(s, "-") THEN Tail(s) ELSE s)

ParseDecimalInteger(s) ==
    IF starts_with(s, "-") THEN -DecimalValue(Tail(s)) ELSE DecimalValue(s)

\* Floats with a decimal point, in the shortest form that reads back as the
\* same float: h/2 is written with one fraction digit, 0 or 5.
FormatFloat(f) ==
    LET mag == IF f.h < 0 THEN -f.h ELSE f.h
    IN  (IF f.h < 0 \/ f.nz THEN <<"-">> ELSE <<>>)
        \o DecimalDigits(mag \div 2)
        \o <<".", IF mag % 2 = 1 THEN "5" ELSE "0">>

\* A JSON number literal read as a float: an optional '-', digits, and an
\* optional fraction.  The floats of the model are the multiples of one
\* half, so the fraction is zeros, or a 5 and zeros; no float of the model
\* stands for any other literal.
ParseFloat(s) ==
    LET neg == starts_with(s, "-")
        body == IF neg THEN Tail(s) ELSE s
        parts == split(body, ".")
        int == parts[1]
        frac == IF Len(parts) = 2 THEN parts[2] ELSE <<"0">>
        half == frac[1] = "5"
        mag == 2 * DecimalValue(int) + (IF half THEN 1 ELSE 0)
    IN  IF /\ Len(parts) <= 2
           /\ IsDecimal(int)
           /\ IsDecimal(frac)
           /\ frac[1] \in {"0", "5"}
           /\ \A i \in 2 .. Len(frac) : frac[i] = "0"
        THEN IF neg /\ mag = 0 THEN Some(NEG_ZERO)
             ELSE Some(Fin(IF neg THEN -mag ELSE mag))
        ELSE None

\* Base64 (RFC 4648, with padding).
Base64Alphabet ==
    <<"A", "B", "C", "D", "E", "F", "G", "H", "I", "J", "K", "L", "M",
      "N", "O", "P", "Q", "R", "S", "T", "U", "V", "W", "X", "Y", "Z",
      "a", "b", "c", "d", "e", "f", "g", "h", "i", "j", "k", "l", "m",
      "n", "o", "p", "q", "r", "s", "t", "u", "v", "w", "x", "y", "z",
      "0", "1", "2", "3", "4", "5", "6", "7", "8", "9", "+", "/">>

Base64Char(n) == Base64Alphabet[n + 1]
IsBase64Char(c) == \E i \in 1 .. Len(Base64Alphabet) : Base64Alphabet[i] = c
Base64Value(c) == (CHOOSE i \in 1 .. Len(Base64Alphabet) : Base64Alphabet[i] = c) - 1

RECURSIVE Base64Encode(_)
Base64Encode(bytes) ==
    IF bytes = <<>> THEN <<>>
    ELSE LET b1 == bytes[1]
             b2 == IF Len(bytes) >= 2 THEN bytes[2] ELSE 0
             b3 == IF Len(bytes) >= 3 THEN bytes[3] ELSE 0
             c1 == Base64Char(b1 \div 4)
             c2 == Base64Char((b1 % 4) * 16 + b2 \div 16)
             c3 == Base64Char((b2 % 16) * 4 + b3 \div 64)
             c4 == Base64Char(b3 % 64)
         IN  CASE Len(bytes) = 1 -> <<c1, c2, "=", "=">>
               [] Len(bytes) = 2 -> <<c1, c2, c3, "=">>
               [] OTHER -> <<c1, c2, c3, c4>> \o Base64Encode(SubSeq(bytes, 4, Len(bytes)))

\* InvalidData on a character outside the alphabet and on bad padding: text
\* that is not a whole number of groups of four, or '=' anywhere but at the
\* end of the last group.
RECURSIVE Base64Decode(_)
Base64Decode(s) ==
    IF s = <<>> THEN Ok(<<>>)
    ELSE IF Len(s) < 4 THEN Err("InvalidData")
    ELSE LET last == Len(s) = 4
             pad2 == last /\ s[3] = "=" /\ s[4] = "="
             pad1 == last /\ s[3] # "=" /\ s[4] = "="
             n == IF pad2 THEN 2 ELSE IF pad1 THEN 3 ELSE 4
             v1 == Base64Value(s[1])
             v2 == Base64Value(s[2])
             v3 == Base64Value(s[3])
             v4 == Base64Value(s[4])
             rest == Base64Decode(SubSeq(s, 5, Len(s)))
         IN  IF \E i \in 1 .. n : ~IsBase64Char(s[i]) THEN Err("InvalidData")
             ELSE IF rest.tag = "Err" THEN rest
             ELSE Ok((CASE pad2 -> <<v1 * 4 + v2 \div 16>>
                        [] pad1 -> <<v1 * 4 + v2 \div 16, (v2 % 16) * 16 + v3 \div 4>>
                        [] OTHER -> <<v1 * 4 + v2 \div 16, (v2 % 16) * 16 + v3 \div 4,
                                      (v3 % 4) * 64 + v4>>)
                     \o rest.v)

\* RFC3339 UTC text.  A Timestamp is the number of seconds since
\* 1970-01-01T00:00:00Z; the instants of the model lie within that day, so
\* the date is fixed and the time of day carries the value.
TwoDigits(n) == <<Digits[(n \div 10) + 1], Digits[(n % 10) + 1]>>

EpochDate == <<"1", "9", "7", "0", "-", "0", "1", "-", "0", "1">>

FormatRfc3339(ts) ==
    EpochDate \o <<"T">> \o TwoDigits(ts \div 3600) \o <<":">>
    \o TwoDigits((ts % 3600) \div 60) \o <<":">> \o TwoDigits(ts % 60) \o <<"Z">>

ParseRfc3339(s) ==
    LET hh == SubSeq(s, 12, 13)
        mm == SubSeq(s, 15, 16)
        ss == SubSeq(s, 18, 19)
    IN  IF /\ Len(s) = 20
           /\ SubSeq(s, 1, 10) = EpochDate
           /\ s[11] = "T" /\ s[14] = ":" /\ s[17] = ":" /\ s[20] = "Z"
           /\ IsDecimal(hh) /\ IsDecimal(mm) /\ IsDecimal(ss)
           /\ DecimalValue(hh) < 24 /\ DecimalValue(mm) < 60 /\ DecimalValue(ss) < 60
        THEN Ok(3600 * DecimalValue(hh) + 60 * DecimalValue(mm) + DecimalValue(ss))
        ELSE Err("InvalidTimestamp")

(***************************************************************************)
(* The tag grammar (sections 3 and 4.4).  A tag is a scalar code, O, or    *)
(* K<T> with K one of A, S and T a tag.                                    *)
(***************************************************************************)
ScalarTags == {"b", "d", "f", "i", "s", "t"}
ContainerTags == {"A", "S"}

RECURSIVE TagOf(_), ContainerTagOf(_, _)

\* The tag of a container: K<T> when its elements share one tag T.
ContainerTagOf(kind, elements) ==
    IF /\ elements # <<>>
       /\ TagOf(elements[1]).tag = "Some"
       /\ \A i \in 1 .. Len(elements) : TagOf(elements[i]) = TagOf(elements[1])
    THEN Some(<<kind, "<">> \o TagOf(elements[1]).v \o <<">">>)
    ELSE None

\* The tag letter of a value's variant and numeric kind.  Undefined has no
\* tag; both integer kinds are written as decimal integers, under i.
TagOf(v) ==
    CASE v.t = "Undefined" -> None
      [] v.t = "Bool" -> Some(<<"b">>)
      [] v.t = "Data" -> Some(<<"d">>)
      [] v.t = "Number" -> IF is_f64(v.n) THEN Some(<<"f">>) ELSE Some(<<"i">>)
      [] v.t = "String" -> Some(<<"s">>)
      [] v.t = "Timestamp" -> Some(<<"t">>)
      [] v.t = "Array" -> ContainerTagOf("A", v.a)
      [] v.t = "Set" -> ContainerTagOf("S", SetIter(v.set))
      [] v.t = "Object" -> Some(<<"O">>)

\* render_tag(value, base_name) -> member_name: no tag on an Object member,
\* nor on an Array or Set whose elements share no tag.
render_tag(value, base_name) ==
    IF value.t # "Object" /\ TagOf(value).tag = "Some"
    THEN base_name \o <<":">> \o TagOf(value).v
    ELSE base_name

ScalarTag(c) == [k |-> c]
CompositeTag(c, inner) == [k |-> c, inner |-> inner]

\* The tag text to a tag descriptor; InvalidTag on an unknown letter and on
\* malformed brackets.
RECURSIVE parse_tag_descriptor(_)
parse_tag_descriptor(s) ==
    IF Len(s) = 1
    THEN IF s[1] \in ScalarTags \cup {"O"} THEN Ok(ScalarTag(s[1])) ELSE Err("InvalidTag")
    ELSE IF Len(s) >= 4 /\ s[1] \in ContainerTags /\ s[2] = "<" /\ s[Len(s)] = ">"
         THEN LET inner == parse_tag_descriptor(SubSeq(s, 3, Len(s) - 1))
              IN  IF inner.tag = "Ok" THEN Ok(CompositeTag(s[1], inner.v)) ELSE inner
         ELSE Err("InvalidTag")

\* parse_tag(member_name) -> (base_name, tag): split at the last ':'.
parse_tag(member_name) ==
    IF \E i \in 1 .. Len(member_name) : member_name[i] = ":"
    THEN LET i == CHOOSE i \in 1 .. Len(member_name) :
                      /\ member_name[i] = ":"
                      /\ \A j \in i + 1 .. Len(member_name) : member_name[j] # ":"
         IN  [base_name |-> SubSeq(member_name, 1, i - 1),
              tag |-> Some(SubSeq(member_name, i + 1, Len(member_name)))]
    ELSE [base_name |-> member_name, tag |-> None]

(***************************************************************************)
(* The Encoder (section 4.6).  Text is the sequence of its JSON tokens,    *)
(* insignificant whitespace included: a string token carries the string,   *)
(* a number token its literal.                                             *)
(***************************************************************************)
Punct(k) == [k |-> k, s |-> <<>>]
StrTok(s) == [k |-> "str", s |-> s]
NumTok(s) == [k |-> "num", s |-> s]
WsTok(s) == [k |-> "ws", s |-> s]

RECURSIVE Spaces(_)
Spaces(n) == IF n = 0 THEN <<>> ELSE <<" ">> \o Spaces(n - 1)

\* Pretty: a new line and two spaces per nesting level.
Indent(pretty, depth) == IF pretty THEN <<WsTok(<<"\n">> \o Spaces(2 * depth))>> ELSE <<>>
AfterColon(pretty) == IF pretty THEN <<WsTok(<<" ">>)>> ELSE <<>>

FormatNumber(n) ==
    CASE n.kind = "UInt" -> FormatInteger(n.u)
      [] n.kind = "Int" -> FormatInteger(n.i)
      [] n.kind = "Float" -> FormatFloat(n.f)

RECURSIVE EncodeValue(_, _, _), EncodeElements(_, _, _), EncodeMembers(_, _, _)

\* The elements of an Array or Set, separated by commas.
EncodeElements(elements, pretty, depth) ==
    Indent(pretty, depth) \o EncodeValue(elements[1], pretty, depth)
    \o (IF Len(elements) = 1 THEN <<>>
        ELSE <<Punct(",")>> \o EncodeElements(Tail(elements), pretty, depth))

\* The members of an Object, one per line when pretty.
EncodeMembers(m, pretty, depth) ==
    Indent(pretty, depth)
    \o <<StrTok(render_tag(m[1][2], m[1][1])), Punct(":")>> \o AfterColon(pretty)
    \o EncodeValue(m[1][2], pretty, depth)
    \o (IF Len(m) = 1 THEN <<>>
        ELSE <<Punct(",")>> \o EncodeMembers(Tail(m), pretty, depth))

EncodeArray(elements, pretty, depth) ==
    IF elements = <<>> THEN <<Punct("["), Punct("]")>>
    ELSE <<Punct("[")>> \o EncodeElements(elements, pretty, depth + 1)
         \o Indent(pretty, depth) \o <<Punct("]")>>

\* Undefined has no literal: a tree that holds one is not encoded (encode).
EncodeValue(v, pretty, depth) ==
    CASE v.t = "Bool" -> <<Punct(IF v.b THEN "true" ELSE "false")>>
      [] v.t = "Data" -> <<StrTok(Base64Encode(v.d))>>
      [] v.t = "Number" -> <<NumTok(FormatNumber(v.n))>>
      [] v.t = "String" -> <<StrTok(v.s)>>
      [] v.t = "Timestamp" -> <<StrTok(FormatRfc3339(v.ts))>>
      [] v.t = "Array" -> EncodeArray(v.a, pretty, depth)
      [] v.t = "Set" -> EncodeArray(SetIter(v.set), pretty, depth)
      [] v.t = "Object" ->
            IF v.m = <<>> THEN <<Punct("{"), Punct("}")>>
            ELSE <<Punct("{")>> \o EncodeMembers(v.m, pretty, depth + 1)
                 \o Indent(pretty, depth) \o <<Punct("}")>>

RECURSIVE ContainsUndefined(_)
ContainsUndefined(v) ==
    CASE v.t = "Undefined" -> TRUE
      [] v.t = "Array" -> \E i \in 1 .. Len(v.a) : ContainsUndefined(v.a[i])
      [] v.t = "Set" -> \E i \in 1 .. Len(v.set) : ContainsUndefined(v.set[i])
      [] v.t = "Object" -> \E i \in 1 .. Len(v.m) : ContainsUndefined(v.m[i][2])
      [] OTHER -> FALSE

\* Undefined must never be emitted: the encoder returns an error for a
\* tree that holds one.
encode(v, pretty) ==
    IF ContainsUndefined(v) THEN Err("Undefined") ELSE Ok(EncodeValue(v, pretty, 0))

to_string(v) == encode(v, FALSE)
to_string_pretty(v) == encode(v, TRUE)

(***************************************************************************)
(* The Reader (section 4.5): the JSON grammar over the tokens, whitespace  *)
(* skipped as in JSON.  A parse returns the node read and the position     *)
(* after it, or an error.                                                  *)
(***************************************************************************)
JBool(b) == [j |-> "bool", b |-> b]
JStr(s) == [j |-> "str", s |-> s]
JNum(s) == [j |-> "num", s |-> s]
JArr(items) == [j |-> "arr", items |-> items]
JObj(members) == [j |-> "obj", members |-> members]

Parsed(node, next) == [ok |-> TRUE, node |-> node, next |-> next]
ParseError(kind) == [ok |-> FALSE, err |-> kind]

\* A Reader that takes whitespace for a token of the grammar.
SkipWs_Never(toks, pos) == pos

RECURSIVE SkipWs(_, _)
SkipWs(toks, pos) ==
    IF pos <= Len(toks) /\ toks[pos].k = "ws" THEN SkipWs(toks, pos + 1) ELSE pos

RECURSIVE ParseJson(_, _), ParseElements(_, _, _), ParseMembers(_, _, _)

\* After '[' or ',': an element, then ',' or ']'.
ParseElements(toks, pos, items) ==
    LET e == ParseJson(toks, pos)
        q == SkipWs(toks, e.next)
    IN  IF ~e.ok THEN e
        ELSE IF q > Len(toks) THEN ParseError("UnexpectedEof")
        ELSE IF toks[q].k = "," THEN ParseElements(toks, q + 1, Append(items, e.node))
        ELSE IF toks[q].k = "]" THEN Parsed(JArr(Append(items, e.node)), q + 1)
        ELSE ParseError("LexError")

\* After '{' or ',': a member name, ':', a value, then ',' or '}'.
ParseMembers(toks, pos, members) ==
    LET p == SkipWs(toks, pos)
        c == SkipWs(toks, p + 1)
        e == ParseJson(toks, c + 1)
        q == SkipWs(toks, e.next)
    IN  IF p > Len(toks) \/ c > Len(toks) THEN ParseError("UnexpectedEof")
        ELSE IF toks[p].k # "str" \/ toks[c].k # ":" THEN ParseError("LexError")
        ELSE IF ~e.ok THEN e
        ELSE IF q > Len(toks) THEN ParseError("UnexpectedEof")
        ELSE IF toks[q].k = ","
             THEN ParseMembers(toks, q + 1, Append(members, <<toks[p].s, e.node>>))
        ELSE IF toks[q].k = "}"
             THEN Parsed(JObj(Append(members, <<toks[p].s, e.node>>)), q + 1)
        ELSE ParseError("LexError")

\* One JSON value.  There is no null in TJSON: the literal is an error.
ParseJson(toks, pos) ==
    LET p == SkipWs(toks, pos)
        close == SkipWs(toks, p + 1)
    IN  IF p > Len(toks) THEN ParseError("UnexpectedEof")
        ELSE CASE toks[p].k = "true" -> Parsed(JBool(TRUE), p + 1)
               [] toks[p].k = "false" -> Parsed(JBool(FALSE), p + 1)
               [] toks[p].k = "str" -> Parsed(JStr(toks[p].s), p + 1)
               [] toks[p].k = "num" -> Parsed(JNum(toks[p].s), p + 1)
               [] toks[p].k = "[" ->
                     IF close <= Len(toks) /\ toks[close].k = "]"
                     THEN Parsed(JArr(<<>>), close + 1)
                     ELSE ParseElements(toks, p + 1, <<>>)
               [] toks[p].k = "{" ->
                     IF close <= Len(toks) /\ toks[close].k = "}"
                     THEN Parsed(JObj(<<>>), close + 1)
                     ELSE ParseMembers(toks, p + 1, <<>>)
               [] OTHER -> ParseError("LexError")

\* The whole text is one JSON value, whitespace aside.
ParseDocument(toks) ==
    LET r == ParseJson(toks, 1)
    IN  IF ~r.ok THEN r
        ELSE IF SkipWs(toks, r.next) <= Len(toks) THEN ParseError("LexError")
        ELSE r

(***************************************************************************)
(* The Decoder (section 4.5): decode dispatch per tag.  A failure anywhere *)
(* in the tree is the result of the whole decode.                          *)
(***************************************************************************)
RECURSIVE DecodeTagged(_, _, _), DecodeUntagged(_, _), DecodeMembers(_, _, _)
RECURSIVE DecodeArray(_, _, _, _), DecodeSet(_, _, _, _), DecodeUntaggedArray(_, _, _)

\* A<T>: every element under T.
DecodeArray(po, inner, items, acc) ==
    IF items = <<>> THEN Ok(Array(acc))
    ELSE LET e == DecodeTagged(po, inner, items[1])
         IN  IF e.tag = "Err" THEN e
             ELSE DecodeArray(po, inner, Tail(items), Append(acc, e.v))

\* An S<T> that keeps one of two equal elements, as Set::insert would.
DecodeSet_Dedup(po, inner, items, acc) ==
    IF items = <<>> THEN Ok(SetV(acc))
    ELSE LET e == DecodeTagged(po, inner, items[1])
         IN  IF e.tag = "Err" THEN e
             ELSE DecodeSet(po, inner, Tail(items), SetInsert(po, acc, e.v))

\* S<T>: as A<T>, and a decoded element that is already in the set is an
\* error.
DecodeSet(po, inner, items, acc) ==
    IF items = <<>> THEN Ok(SetV(acc))
    ELSE LET e == DecodeTagged(po, inner, items[1])
         IN  IF e.tag = "Err" THEN e
             ELSE IF SetContains(po, acc, e.v) THEN Err("DuplicateSetElement")
             ELSE DecodeSet(po, inner, Tail(items), SetInsert(po, acc, e.v))

\* An array without a tag: each element is decoded as an untagged value.
DecodeUntaggedArray(po, items, acc) ==
    IF items = <<>> THEN Ok(Array(acc))
    ELSE LET e == DecodeUntagged(po, items[1])
         IN  IF e.tag = "Err" THEN e
             ELSE DecodeUntaggedArray(po, Tail(items), Append(acc, e.v))

\* A decoder that, when a member fails, returns the object built so far.
DecodeMembers_KeepDecoded(po, members, acc) ==
    IF members = <<>> THEN Ok(Object(acc))
    ELSE LET name == parse_tag(members[1][1])
             desc == parse_tag_descriptor(name.tag.v)
             e == IF name.tag.tag = "None" THEN DecodeUntagged(po, members[1][2])
                  ELSE IF desc.tag = "Err" THEN desc
                  ELSE DecodeTagged(po, desc.v, members[1][2])
         IN  IF e.tag = "Err" THEN Ok(Object(acc))
             ELSE DecodeMembers(po, Tail(members),
                                MapInsert(po, acc, name.base_name, e.v))

\* An object: each member name goes through parse_tag before its value is
\* decoded.
DecodeMembers(po, members, acc) ==
    IF members = <<>> THEN Ok(Object(acc))
    ELSE LET name == parse_tag(members[1][1])
             desc == parse_tag_descriptor(name.tag.v)
             e == IF name.tag.tag = "None" THEN DecodeUntagged(po, members[1][2])
                  ELSE IF desc.tag = "Err" THEN desc
                  ELSE DecodeTagged(po, desc.v, members[1][2])
         IN  IF e.tag = "Err" THEN e
             ELSE DecodeMembers(po, Tail(members),
                                MapInsert(po, acc, name.base_name, e.v))

\* A decoder that reads a scalar without a tag by the shape of its literal.
DecodeUntagged_ByShape(po, node) ==
    CASE node.j = "obj" -> DecodeMembers(po, node.members, MapNew)
      [] node.j = "arr" -> DecodeUntaggedArray(po, node.items, <<>>)
      [] node.j = "bool" -> Ok(Bool(node.b))
      [] node.j = "str" -> Ok(String(node.s))
      [] node.j = "num" ->
            IF IsDecimalInteger(node.s)
            THEN Ok(Number(from_signed(ParseDecimalInteger(node.s))))
            ELSE Ok(Number(from_f64(ParseFloat(node.s).v).v))

\* A value without a tag: objects and arrays decode structurally, a scalar
\* is MissingTag.
DecodeUntagged(po, node) ==
    CASE node.j = "obj" -> DecodeMembers(po, node.members, MapNew)
      [] node.j = "arr" -> DecodeUntaggedArray(po, node.items, <<>>)
      [] OTHER -> Err("MissingTag")

DecodeFloat(s) ==
    IF ParseFloat(s).tag = "None" THEN Err("LexError")
    ELSE IF from_f64(ParseFloat(s).v).tag = "None" THEN Err("InvalidNumber")
    ELSE Ok(Number(from_f64(ParseFloat(s).v).v))

\* i: a bare or quoted decimal integer, parsed as a signed 64-bit integer.
DecodeInteger(s) ==
    IF ~IsDecimalInteger(s) THEN Err("TagMismatch")
    ELSE IF ParseDecimalInteger(s) \notin I64 THEN Err("NumberOutOfRange")
    ELSE Ok(Number(from_signed(ParseDecimalInteger(s))))

DecodeData(s) ==
    IF Base64Decode(s).tag = "Err" THEN Base64Decode(s) ELSE Ok(Data(Base64Decode(s).v))

DecodeTimestamp(s) ==
    IF ParseRfc3339(s).tag = "Err" THEN ParseRfc3339(s) ELSE Ok(Timestamp(ParseRfc3339(s).v))

\* TagMismatch when the shape of the literal is not the one the tag names.
DecodeTagged(po, desc, node) ==
    CASE desc.k = "b" -> IF node.j = "bool" THEN Ok(Bool(node.b)) ELSE Err("TagMismatch")
      [] desc.k = "d" -> IF node.j = "str" THEN DecodeData(node.s) ELSE Err("TagMismatch")
      [] desc.k = "f" -> IF node.j = "num" THEN DecodeFloat(node.s) ELSE Err("TagMismatch")
      [] desc.k = "i" ->
            IF node.j \in {"num", "str"} THEN DecodeInteger(node.s) ELSE Err("TagMismatch")
      [] desc.k = "s" -> IF node.j = "str" THEN Ok(String(node.s)) ELSE Err("TagMismatch")
      [] desc.k = "t" ->
            IF node.j = "str" THEN DecodeTimestamp(node.s) ELSE Err("TagMismatch")
      [] desc.k = "O" ->
            IF node.j = "obj" THEN DecodeMembers(po, node.members, MapNew)
            ELSE Err("TagMismatch")
      [] desc.k = "A" ->
            IF node.j = "arr" THEN DecodeArray(po, desc.inner, node.items, <<>>)
            ELSE Err("TagMismatch")
      [] desc.k = "S" ->
            IF node.j = "arr" THEN DecodeSet(po, desc.inner, node.items, SetNew)
            ELSE Err("TagMismatch")

\* decode-from-text: a Value or an error.
from_str(po, toks) ==
    IF ~ParseDocument(toks).ok THEN Err(ParseDocument(toks).err)
    ELSE DecodeUntagged(po, ParseDocument(toks).node)

(***************************************************************************)
(* Encoding and decoding as operations.  codecValue is the Value handed to *)
(* the encoder, text what the encoder returned, decoded what the decoder   *)
(* returned for that text.  The Values are drawn from a pool with every    *)
(* scalar variant and numeric kind at the ends of its range, alone, as a   *)
(* member, and inside Arrays, Sets and Objects.                            *)
(***************************************************************************)
CodecNumbers ==
    {Number(from_signed(I64_MIN)), MinusOne, Number(from_unsigned(0)), One,
     Number(from_unsigned(I64_MAX)), Number(from_unsigned(I64_MAX + 1)),
     Number(from_unsigned(U64_MAX)),
     PosZero, NegZero, OneFloat, Number(from_f64(Fin(-3)).v),
     Number(from_f64(Fin(MaxFloatHalves)).v)}

CodecScalars ==
    {Undefined, Bool(FALSE), Bool(TRUE),
     Data(<<>>), Data(<<66>>), Data(<<66, 73>>), Data(<<66, 73, 78, 65, 82, 89>>),
     Data(<<255, 0, 128, 7>>),
     String(<<>>), String(KeyA), String(<<"1">>),
     Timestamp(0), Timestamp(3661), Timestamp(86399)}
    \cup CodecNumbers

CodecObject(po, es) == Object(MapFromSeq(po, es))
CodecSet(po, xs) == SetV(SetFromSeq(po, xs))

CodecContainers(po) ==
    {Array(<<>>), Array(<<One, MinusOne>>), Array(<<One, String(KeyA)>>),
     Array(<<String(KeyB), String(KeyA)>>), Array(<<Undefined>>),
     Array(<<Array(<<One>>), Array(<<MinusOne, One>>)>>),
     Array(<<Array(<<One>>), Array(<<String(KeyA)>>)>>),
     Array(<<Array(<<>>), Array(<<>>)>>),
     Array(<<Array(<<>>), Array(<<One>>)>>),
     Array(<<CodecObject(po, <<<<KeyA, One>>>>), CodecObject(po, <<>>)>>),
     Array(<<CodecObject(po, <<>>), Array(<<>>)>>),
     Array(<<CodecSet(po, <<One>>), CodecSet(po, <<MinusOne>>)>>),
     CodecSet(po, <<>>), CodecSet(po, <<One, MinusOne>>),
     CodecSet(po, <<OneFloat, NegZero>>), CodecSet(po, <<One, String(KeyA)>>),
     CodecSet(po, <<Array(<<One>>)>>),
     CodecSet(po, <<CodecObject(po, <<<<KeyA, Bool(TRUE)>>>>)>>),
     CodecSet(po, <<Number(from_unsigned(U64_MAX))>>),
     CodecObject(po, <<>>), CodecObject(po, <<<<KeyA, One>>>>),
     CodecObject(po, <<<<KeyB, Array(<<One>>)>>, <<KeyA, Undefined>>>>)}

CodecMembers(po) == CodecScalars \cup CodecContainers(po)

CodecValues(po) ==
    CodecMembers(po)
    \cup {CodecObject(po, <<<<KeyA, w>>>>) : w \in CodecMembers(po)}
    \cup {CodecObject(po, <<<<KeyB, x>>, <<KeyA, w>>>>) :
             x \in {MinusOne, CodecSet(po, <<One, MinusOne>>)},
             w \in {OneFloat, Data(<<66>>), Array(<<String(KeyB), String(KeyA)>>),
                    Array(<<One, String(KeyA)>>),
                    CodecObject(po, <<<<KeyAA, Timestamp(3661)>>>>)}}

NotEncoded == [mode |-> "none"]
NotDecoded == [done |-> FALSE]

InitCodec ==
    /\ codecValue \in CodecValues(preserve_order)
    /\ text = NotEncoded
    /\ decoded = NotDecoded

\* to_string(&value)
CallToString ==
    /\ text.mode = "none"
    /\ text' = [mode |-> "compact", out |-> to_string(codecValue)]
    /\ UNCHANGED <<preserve_order, iterVars, accessVars, numberVars, mapVars, orderVars, pointerVars,
                   codecValue, decoded>>

\* to_string_pretty(&value)
CallToStringPretty ==
    /\ text.mode = "none"
    /\ text' = [mode |-> "pretty", out |-> to_string_pretty(codecValue)]
    /\ UNCHANGED <<preserve_order, iterVars, accessVars, numberVars, mapVars, orderVars, pointerVars,
                   codecValue, decoded>>

\* from_str(&text), on the text at hand.
CallFromStr ==
    /\ text.mode # "none"
    /\ text.out.tag = "Ok"
    /\ ~decoded.done
    /\ decoded' = [done |-> TRUE, out |-> from_str(preserve_order, text.out.v)]
    /\ UNCHANGED <<preserve_order, iterVars, accessVars, numberVars, mapVars, orderVars, pointerVars,
                   codecValue, text>>

NextCodec ==
    \/ CallToString
    \/ CallToStringPretty
    \/ CallFromStr

(***************************************************************************)
(* SpecDecode: from_str on text that was written by hand.  The texts are   *)
(* objects of one or two members, the member names with and without a tag, *)
(* well formed and not, over scalar, array and object literals, and a few  *)
(* texts that are no object.                                               *)
(***************************************************************************)
RECURSIVE JsonText(_), JsonItems(_), JsonMembers(_)

\* The compact text of a JSON node.
JsonText(node) ==
    CASE node.j = "bool" -> <<Punct(IF node.b THEN "true" ELSE "false")>>
      [] node.j = "str" -> <<StrTok(node.s)>>
      [] node.j = "num" -> <<NumTok(node.s)>>
      [] node.j = "arr" -> <<Punct("[")>> \o JsonItems(node.items) \o <<Punct("]")>>
      [] node.j = "obj" -> <<Punct("{")>> \o JsonMembers(node.members) \o <<Punct("}")>>

JsonItems(items) ==
    IF items = <<>> THEN <<>>
    ELSE JsonText(items[1])
         \o (IF Len(items) = 1 THEN <<>> ELSE <<Punct(",")>> \o JsonItems(Tail(items)))

JsonMembers(members) ==
    IF members = <<>> THEN <<>>
    ELSE <<StrTok(members[1][1]), Punct(":")>> \o JsonText(members[1][2])
         \o (IF Len(members) = 1 THEN <<>>
             ELSE <<Punct(",")>> \o JsonMembers(Tail(members)))

TagTexts ==
    {<<"i">>, <<"s">>, <<"b">>, <<"f">>, <<"d">>, <<"t">>, <<"O">>, <<"x">>,
     <<"A", "<", "i", ">">>, <<"A", "<", "s", ">">>,
     <<"S", "<", "i", ">">>, <<"S", "<", "s", ">">>, <<"S", "<", "f", ">">>,
     <<"S", "<", "A", "<", "i", ">", ">">>, <<"S", "<", "i">>}

DecodeNames == {KeyA} \cup {KeyA \o <<":">> \o tag : tag \in TagTexts}

JOne == JNum(<<"1">>)
JTwo == JNum(<<"2">>)

DecodeScalarNodes ==
    {JNum(<<"5">>), JOne, JNum(<<"-", "1">>), JNum(<<"1", ".", "5">>),
     JStr(KeyA), JStr(<<>>), JStr(<<"1">>), JBool(TRUE)}

DecodeArrayNodes ==
    {JArr(<<>>), JArr(<<JOne>>), JArr(<<JOne, JTwo>>), JArr(<<JOne, JTwo, JTwo>>),
     JArr(<<JOne, JStr(<<"1">>)>>),
     JArr(<<JOne, JStr(KeyA)>>),
     JArr(<<JStr(KeyA), JStr(KeyB)>>), JArr(<<JStr(KeyA), JStr(KeyA)>>),
     JArr(<<JNum(<<"0", ".", "0">>), JNum(<<"-", "0", ".", "0">>)>>),
     JArr(<<JNum(<<"0", ".", "5">>), JNum(<<"1", ".", "5">>)>>),
     JArr(<<JArr(<<JOne>>), JArr(<<JOne>>)>>),
     JArr(<<JArr(<<JOne>>), JArr(<<JTwo>>)>>),
     JArr(<<JArr(<<>>), JObj(<<>>)>>)}

DecodeObjectNodes ==
    {JObj(<<>>), JObj(<<<<KeyB \o <<":", "i">>, JOne>>>>), JObj(<<<<KeyB, JOne>>>>),
     JObj(<<<<KeyB \o <<":", "i">>, JOne>>, <<KeyA, JOne>>>>),
     JObj(<<<<KeyB, JArr(<<>>)>>>>)}

DecodeNodes == DecodeScalarNodes \cup DecodeArrayNodes \cup DecodeObjectNodes

DecodeMembersPool == {<<name, node>> : name \in DecodeNames, node \in DecodeNodes}

\* First members of the two-member objects: one that decodes, one that
\* decodes to a container, one that does not decode.
DecodeFirstMembers ==
    {<<KeyB \o <<":", "i">>, JTwo>>, <<KeyB, JArr(<<>>)>>, <<KeyB \o <<":", "b">>, JTwo>>}

DecodeDocuments ==
    {JObj(<<>>), JNum(<<"5">>), JStr(KeyA), JBool(TRUE), JArr(<<>>), JArr(<<JOne>>),
     JArr(<<JObj(<<<<KeyA \o <<":", "i">>, JOne>>>>)>>)}
    \cup {JObj(<<member>>) : member \in DecodeMembersPool}
    \cup {JObj(<<first, member>>) : first \in DecodeFirstMembers,
                                    member \in DecodeMembersPool}

DecodeTexts == {JsonText(document) : document \in DecodeDocuments}

InitDecode ==
    /\ codecValue = Undefined
    /\ text \in {[mode |-> "given", out |-> Ok(t)] : t \in DecodeTexts}
    /\ decoded = NotDecoded

NextDecode == CallFromStr

(***************************************************************************)
(* The Number constructors as operations.  Each of the two slots records   *)
(* the constructor called last, its argument and what it returned.         *)
(***************************************************************************)
NoCall == [ctor |-> "none"]

CallFromSigned(i) == [ctor |-> "from_signed", i |-> i, out |-> Ret(from_signed(i))]
CallFromUnsigned(u) == [ctor |-> "from_unsigned", u |-> u, out |-> Ret(from_unsigned(u))]
CallFromF64(f) == [ctor |-> "from_f64", f |-> f, out |-> from_f64(f)]
CallVisitI64(i) == [ctor |-> "visit_i64", i |-> i, out |-> visit_i64(i)]
CallVisitU64(u) == [ctor |-> "visit_u64", u |-> u, out |-> visit_u64(u)]
CallVisitF64(f) == [ctor |-> "visit_f64", f |-> f, out |-> visit_f64(f)]

NumberCalls ==
    {CallFromSigned(i) : i \in I64} \cup {CallFromUnsigned(u) : u \in U64}
    \cup {CallFromF64(f) : f \in F64} \cup {CallVisitI64(i) : i \in I64}
    \cup {CallVisitU64(u) : u \in U64} \cup {CallVisitF64(f) : f \in F64}

HasNumber(slot) == slot.ctor # "none" /\ slot.out.tag \in {"Ret", "Some", "Ok"}
NumberOf(slot) == slot.out.v

InitNumber ==
    /\ numA = NoCall
    /\ numB = NoCall

FromSigned ==
    \E i \in I64 :
        \/ numA' = CallFromSigned(i) /\ UNCHANGED <<preserve_order, iterVars, accessVars, codecVars, numB, mapVars, orderVars, pointerVars>>
        \/ numB' = CallFromSigned(i) /\ UNCHANGED <<preserve_order, iterVars, accessVars, codecVars, numA, mapVars, orderVars, pointerVars>>

FromUnsigned ==
    \E u \in U64 :
        \/ numA' = CallFromUnsigned(u) /\ UNCHANGED <<preserve_order, iterVars, accessVars, codecVars, numB, mapVars, orderVars, pointerVars>>
        \/ numB' = CallFromUnsigned(u) /\ UNCHANGED <<preserve_order, iterVars, accessVars, codecVars, numA, mapVars, orderVars, pointerVars>>

FromF64 ==
    \E f \in F64 :
        \/ numA' = CallFromF64(f) /\ UNCHANGED <<preserve_order, iterVars, accessVars, codecVars, numB, mapVars, orderVars, pointerVars>>
        \/ numB' = CallFromF64(f) /\ UNCHANGED <<preserve_order, iterVars, accessVars, codecVars, numA, mapVars, orderVars, pointerVars>>

VisitI64 ==
    \E i \in I64 :
        \/ numA' = CallVisitI64(i) /\ UNCHANGED <<preserve_order, iterVars, accessVars, codecVars, numB, mapVars, orderVars, pointerVars>>
        \/ numB' = CallVisitI64(i) /\ UNCHANGED <<preserve_order, iterVars, accessVars, codecVars, numA, mapVars, orderVars, pointerVars>>

VisitU64 ==
    \E u \in U64 :
        \/ numA' = CallVisitU64(u) /\ UNCHANGED <<preserve_order, iterVars, accessVars, codecVars, numB, mapVars, orderVars, pointerVars>>
        \/ numB' = CallVisitU64(u) /\ UNCHANGED <<preserve_order, iterVars, accessVars, codecVars, numA, mapVars, orderVars, pointerVars>>

VisitF64 ==
    \E f \in F64 :
        \/ numA' = CallVisitF64(f) /\ UNCHANGED <<preserve_order, iterVars, accessVars, codecVars, numB, mapVars, orderVars, pointerVars>>
        \/ numB' = CallVisitF64(f) /\ UNCHANGED <<preserve_order, iterVars, accessVars, codecVars, numA, mapVars, orderVars, pointerVars>>

NextNumber ==
    \/ FromSigned
    \/ FromUnsigned
    \/ FromF64
    \/ VisitI64
    \/ VisitU64
    \/ VisitF64

(***************************************************************************)
(* Properties of Number, checked under SpecNumber.                         *)
(***************************************************************************)
\* Twice the mathematical value of a Number.
Mag2(n) ==
    CASE n.kind = "Int" -> 2 * n.i
      [] n.kind = "UInt" -> 2 * n.u
      [] n.kind = "Float" -> n.f.h

BothNumbers == HasNumber(numA) /\ HasNumber(numB)

Trichotomy(a, b) ==
    /\ NumberLt(a, b) \/ NumberEq(a, b) \/ NumberLt(b, a)
    /\ ~(NumberLt(a, b) /\ NumberEq(a, b))
    /\ ~(NumberLt(b, a) /\ NumberEq(a, b))
    /\ ~(NumberLt(a, b) /\ NumberLt(b, a))

\* C2, as claimed: any two Numbers, of any kinds, are ordered exactly as
\* their mathematical values are: a < b iff value(a) < value(b), and
\* a == b iff value(a) = value(b), exactly one of <, ==, > holding.
C2_OrderIsMagnitudeOrder ==
    BothNumbers =>
        LET a == NumberOf(numA)
            b == NumberOf(numB)
        IN  /\ Trichotomy(a, b)
            /\ NumberLt(a, b) <=> Mag2(a) < Mag2(b)
            /\ NumberEq(a, b) <=> Mag2(a) = Mag2(b)

\* C2, amended: exactly one of a<b, a==b, b<a holds for any two Numbers;
\* the outcome is that of their mathematical values when both are integers
\* (signed or unsigned) or both are floats; a float Number is never equal to
\* an integer Number and orders above every integer Number.
C2_OrderTotalMagnitudeWithinClass ==
    BothNumbers =>
        LET a == NumberOf(numA)
            b == NumberOf(numB)
        IN  /\ Trichotomy(a, b)
            /\ is_f64(a) = is_f64(b) =>
                  /\ NumberLt(a, b) <=> Mag2(a) < Mag2(b)
                  /\ NumberEq(a, b) <=> Mag2(a) = Mag2(b)
            /\ is_f64(a) /\ ~is_f64(b) => NumberLt(b, a) /\ ~NumberEq(a, b)
            /\ ~is_f64(a) /\ is_f64(b) => NumberLt(a, b) /\ ~NumberEq(a, b)

\* A float of smaller value than an unsigned integer, compared with it.
C2_Witness ==
    /\ BothNumbers
    /\ is_f64(NumberOf(numA)) /\ is_u64(NumberOf(numB))
    /\ Mag2(NumberOf(numA)) < Mag2(NumberOf(numB))
    /\ NumberLt(NumberOf(numB), NumberOf(numA))

\* C3: for every n with 0 <= n <= i64::MAX, the Number built from the
\* signed n equals the Number built from the unsigned n, and neither orders
\* below the other.
C3_SignedUnsignedEqual ==
    (/\ numA.ctor = "from_signed"
     /\ numB.ctor = "from_unsigned"
     /\ 0 <= numA.i /\ numA.i <= I64_MAX
     /\ numA.i = numB.u) =>
        /\ NumberEq(NumberOf(numA), NumberOf(numB))
        /\ NumberEq(NumberOf(numB), NumberOf(numA))
        /\ ~NumberLt(NumberOf(numA), NumberOf(numB))
        /\ ~NumberLt(NumberOf(numB), NumberOf(numA))

C3_Witness ==
    /\ numA.ctor = "from_signed"
    /\ numB.ctor = "from_unsigned"
    /\ numA.i = I64_MAX
    /\ numB.u = I64_MAX
    /\ NumberEq(NumberOf(numA), NumberOf(numB))

FloatCallHolds(slot) ==
    slot.ctor \in {"from_f64", "visit_f64"} =>
        IF is_finite(slot.f)
        THEN /\ HasNumber(slot)
             /\ is_f64(NumberOf(slot))
             /\ as_f64(NumberOf(slot)) = Some(slot.f)
        ELSE /\ ~HasNumber(slot)
             /\ slot.out = IF slot.ctor = "from_f64"
                           THEN None
                           ELSE Err("not a JSON number")

NeverNonFinite(slot) ==
    (HasNumber(slot) /\ is_f64(NumberOf(slot))) => is_finite(NumberOf(slot).f)

KeySeq(m) == [i \in 1 .. Len(m) |-> m[i][1]]

DistinctKeys(m) ==
    \A i, j \in 1 .. Len(m) : i # j => m[i][1] # m[j][1]

DistinctElements(set) ==
    \A i, j \in 1 .. Len(set) : i # j => ~ValueEq(set[i], set[j])

ReinsertedKey == lastMap.op = "insert" /\ lastMap.present

\* C6: after any sequence of inserts and removes the keys of a Map and the
\* elements of a Set are pairwise distinct; an insert of a key already
\* there leaves the length and the key set as they were and makes the key
\* map to the new value; an insert never adds more than one entry; an
\* insert of an element already in a Set leaves the Set as it was.
C6_MapSetUniqueness ==
    /\ DistinctKeys(mapA)
    /\ DistinctKeys(mapB)
    /\ DistinctElements(setA)
    /\ lastMap.op = "insert" =>
          /\ MapLen(mapA) <= MapLen(lastMap.before) + 1
          /\ MapGet(mapA, lastMap.key) = Some(lastMap.value)
    /\ ReinsertedKey =>
          /\ MapLen(mapA) = MapLen(lastMap.before)
          /\ MapKeys(mapA) = MapKeys(lastMap.before)
    /\ (lastSet.op = "insert" /\ lastSet.present) =>
          /\ setA = lastSet.before
          /\ SetLen(setA) = SetLen(lastSet.before)

\* A key of a full map was inserted again, with another value.
C6_Witness ==
    /\ ReinsertedKey
    /\ MapLen(mapA) = Cardinality(MapKeyPool)
    /\ MapGet(lastMap.before, lastMap.key) # Some(lastMap.value)
    /\ MapGet(mapA, lastMap.key) = Some(lastMap.value)

SameEntries(m1, m2) ==
    {m1[i] : i \in 1 .. Len(m1)} = {m2[i] : i \in 1 .. Len(m2)}

\* C7, as claimed: two Maps that hold the same (key, value) pairs are equal
\* whatever the order in which the pairs were inserted, under the sorted
\* backend and under the insertion-order backend.
C7_MapEqOrderIndependent ==
    (component = "map" /\ SameEntries(mapA, mapB)) => MapEq(mapA, mapB)

Ascending(m) ==
    \A i, j \in 1 .. Len(m) : i < j => StrCmp(m[i][1], m[j][1]) = -1

C5_ValueEqOrdConsistent ==
    ord.done =>
        /\ ord.eqAA /\ ord.cmpAA = 0
        /\ ord.eqAB = ord.eqBA
        /\ ord.cmpAB = -ord.cmpBA
        /\ ord.eqAB <=> (ord.cmpAB # -1 /\ ord.cmpBA # -1)
        /\ (ord.cmpAB <= 0 /\ ord.cmpBC <= 0) => ord.cmpAC <= 0
        /\ (ord.cmpAB = -1 /\ ord.cmpBC = -1) => ord.cmpAC = -1
        /\ (ord.eqAB /\ ord.eqBC) => ord.eqAC
        /\ valA = valB => ord.eqAB

\* Two Values that are equal without being the same tree (0.0 and -0.0 in
\* an Object) and a third one above them were compared.
C5_Witness ==
    /\ ord.done
    /\ valA.t = "Object" /\ valB.t = "Object" /\ valA # valB
    /\ ord.eqAB /\ ord.cmpAB = 0
    /\ valC.t = "Object" /\ ord.cmpBC = -1 /\ ord.cmpAC = -1

(***************************************************************************)
(* Properties of pointer and pointer_mut, checked under SpecPointer.       *)
(***************************************************************************)
PointerCalled == ptrCall.fn # "none"

\* C9: pointer("") and pointer_mut("") resolve to the value itself, for
\* every Value: a scalar, a Set and Undefined as well as a container.
C9_EmptyPointerIsSelf ==
    (PointerCalled /\ ptrCall.ptr = <<>>) =>
        /\ ptrCall.out = Some(<<>>)
        /\ NodeAt(doc, ptrCall.out.v) = doc

C9_Witness ==
    /\ ptrCall.fn = "pointer_mut"
    /\ ptrCall.ptr = <<>>
    /\ doc = SetV(SetNew)
    /\ ptrCall.out = Some(<<>>)

\* C10: a non-empty pointer string that does not start with '/' resolves
\* to no value under pointer and under pointer_mut, whatever the Value, and
\* also when the string is a key of the Object or a position of the Array.
C10_NoLeadingSlashIsNone ==
    (PointerCalled /\ ptrCall.ptr # <<>> /\ ptrCall.ptr[1] # "/") =>
        ptrCall.out = None

\* The string "a" against an Object that has the key "a".
C10_Witness ==
    /\ ptrCall.fn = "pointer"
    /\ ptrCall.ptr = KeyA
    /\ doc.t = "Object" /\ MapContainsKey(doc.m, KeyA)
    /\ ptrCall.out = None

(***************************************************************************)
(* Pointer resolution, stated apart from the loop of pointer: the segments *)
(* of the pointer string, each unescaped in one pass from left to right,   *)
(* and one lookup per segment.                                             *)
(***************************************************************************)
RawSegments(p) == Tail(split(p, "/"))

RECURSIVE Unescape(_)
Unescape(seg) ==
    IF seg = <<>> THEN <<>>
    ELSE IF Len(seg) >= 2 /\ seg[1] = "~" /\ seg[2] = "1"
         THEN <<"/">> \o Unescape(SubSeq(seg, 3, Len(seg)))
    ELSE IF Len(seg) >= 2 /\ seg[1] = "~" /\ seg[2] = "0"
         THEN <<"~">> \o Unescape(SubSeq(seg, 3, Len(seg)))
    ELSE <<seg[1]>> \o Unescape(Tail(seg))

\* The escaped form of a key: '~' as ~0, then '/' as ~1.
Escape(key) == replace(replace(key, <<"~">>, <<"~", "0">>), <<"/">>, <<"~", "1">>)

\* A bare non-negative decimal: "0", or digits that do not start with 0.
IsBareIndex(seg) ==
    /\ seg # <<>>
    /\ \A i \in 1 .. Len(seg) : IsDigit(seg[i])
    /\ seg[1] = "0" => Len(seg) = 1

\* The step a segment takes from a node, if it takes one.
StepFrom(node, seg) ==
    CASE node.t = "Object" ->
            IF \E i \in 1 .. Len(node.m) : node.m[i][1] = seg
            THEN Some(KeyStep(seg)) ELSE None
      [] node.t = "Array" ->
            IF IsBareIndex(seg) /\ DecimalValue(seg) < Len(node.a)
            THEN Some(IndexStep(DecimalValue(seg))) ELSE None
      [] OTHER -> None

\* The path the segments take from the root, one lookup after the other.
RECURSIVE StepByStep(_, _, _)
StepByStep(root, path, segs) ==
    IF segs = <<>> THEN Some(path)
    ELSE LET st == StepFrom(NodeAt(root, path), Unescape(segs[1]))
         IN  IF st.tag = "None" THEN None
             ELSE StepByStep(root, Append(path, st.v), Tail(segs))

SlashPointerCalled == PointerCalled /\ starts_with(ptrCall.ptr, "/")

\* C11: for a pointer "/s1/.../sn", pointer returns the node reached from
\* the root by taking, for each unescaped segment in order, the member with
\* that key of an Object or the element at that decimal index of an Array,
\* and no value when a lookup on the way yields none.
C11_PointerIsStepByStep ==
    SlashPointerCalled =>
        /\ ptrCall.out = StepByStep(doc, <<>>, RawSegments(ptrCall.ptr))
        /\ ptrCall.out.tag = "Some" =>
              \A k \in 1 .. Len(ptrCall.out.v) :
                  LET parent == NodeAt(doc, SubSeq(ptrCall.out.v, 1, k - 1))
                      step == ptrCall.out.v[k]
                  IN  IF parent.t = "Object"
                      THEN MapContainsKey(parent.m, step.key)
                      ELSE parent.t = "Array" /\ step.idx < Len(parent.a)

\* "/a/b/1" on {"a": {"b": ["a", "aa"]}} yields "aa".
C11_Witness ==
    /\ ptrCall.fn = "pointer"
    /\ ptrCall.ptr = <<"/", "a", "/", "b", "/", "1">>
    /\ ptrCall.out.tag = "Some"
    /\ Len(ptrCall.out.v) = 3
    /\ NodeAt(doc, ptrCall.out.v) = String(KeyAA)

\* C12: a segment applied to an Array resolves only if it is a bare
\* non-negative decimal without a leading '+' and without a leading zero
\* unless it is "0"; "01", "+1", "-0", the empty segment and non-digits
\* yield no value, also when the number they spell is in range.
C12_ArrayIndexSyntax ==
    SlashPointerCalled =>
        \A k \in 1 .. Len(RawSegments(ptrCall.ptr)) :
            LET segs == RawSegments(ptrCall.ptr)
                before == StepByStep(doc, <<>>, SubSeq(segs, 1, k - 1))
            IN  (/\ before.tag = "Some"
                 /\ NodeAt(doc, before.v).t = "Array"
                 /\ ~IsBareIndex(Unescape(segs[k])))
                => ptrCall.out = None

\* "/01" on an Array of two elements.
C12_Witness ==
    /\ ptrCall.fn = "pointer"
    /\ ptrCall.ptr = <<"/", "0", "1">>
    /\ doc.t = "Array" /\ Len(doc.a) = 2
    /\ ptrCall.out = None

\* C13: a segment is unescaped before the lookup, ~1 to '/' and ~0 to '~',
\* so that the escaped form of a key addresses that key; "~01" addresses
\* the key "~1" and not the key "/".
C13_UnescapeAddressesKey ==
    (SlashPointerCalled /\ doc.t = "Object") =>
        \A i \in 1 .. Len(doc.m) :
            ptrCall.ptr = <<"/">> \o Escape(doc.m[i][1])
            => ptrCall.out = Some(<<KeyStep(doc.m[i][1])>>)

\* "/~01" on an Object that has the keys "~1" and "/".
C13_Witness ==
    /\ ptrCall.fn = "pointer"
    /\ ptrCall.ptr = <<"/", "~", "0", "1">>
    /\ doc.t = "Object"
    /\ MapContainsKey(doc.m, <<"~", "1">>) /\ MapContainsKey(doc.m, <<"/">>)
    /\ ptrCall.out = Some(<<KeyStep(<<"~", "1">>)>>)

\* C14: when at some segment the node reached is neither an Object nor an
\* Array, or the key is missing, or the index is out of range, the pointer
\* yields no value, whatever the segments that follow.
C14_PointerShortCircuit ==
    SlashPointerCalled =>
        \A k \in 1 .. Len(RawSegments(ptrCall.ptr)) :
            LET segs == RawSegments(ptrCall.ptr)
                before == StepByStep(doc, <<>>, SubSeq(segs, 1, k - 1))
            IN  (/\ before.tag = "Some"
                 /\ StepFrom(NodeAt(doc, before.v), Unescape(segs[k])) = None)
                => ptrCall.out = None

\* "/a/b/1" on an Object whose member "a" is a Set: the lookup stops at
\* the second of three segments.
C14_Witness ==
    /\ ptrCall.fn = "pointer"
    /\ ptrCall.ptr = <<"/", "a", "/", "b", "/", "1">>
    /\ doc.t = "Object"
    /\ MapGet(doc.m, KeyA) = Some(SetV(SetNew))
    /\ ptrCall.out = None

(***************************************************************************)
(* C15: get and get_mut.  A string key yields a value only when the Value  *)
(* is an Object containing that key, and then the value stored under it;   *)
(* an integer position yields a value only when the Value is an Array and  *)
(* the position is in range, and then the element at that position; every  *)
(* other lookup yields no value.                                           *)
(***************************************************************************)
GetCalled == access.fn \in {"get", "get_mut"}

HasKey(v, k) == v.t = "Object" /\ \E i \in 1 .. Len(v.m) : v.m[i][1] = k

InRange(v, i) == v.t = "Array" /\ i < Len(v.a)

C15_GetIndexSemantics ==
    GetCalled =>
        /\ access.out.tag \in {"Some", "None"}
        /\ "key" \in DOMAIN access.index =>
              /\ access.out.tag = "Some" <=> HasKey(accValue, access.index.key)
              /\ access.out.tag = "Some" =>
                    \E i \in 1 .. Len(accValue.m) :
                        /\ accValue.m[i][1] = access.index.key
                        /\ accValue.m[i][2] = access.out.v
        /\ "idx" \in DOMAIN access.index =>
              /\ access.out.tag = "Some" <=> InRange(accValue, access.index.idx)
              /\ access.out.tag = "Some" =>
                    access.out.v = accValue.a[access.index.idx + 1]

\* get(2) on the three-element Array yields its last element.
C15_Witness ==
    /\ access.fn = "get"
    /\ accValue = AccThree
    /\ access.index = IndexStep(2)
    /\ access.out = Some(String(KeyAA))

(***************************************************************************)
(* C16: the square brackets return Undefined exactly where get with the    *)
(* same index returns no value, and the child get returns otherwise; a     *)
(* chain of brackets returns what the chain of gets reaches, and Undefined *)
(* once any get of the chain returns no value.                             *)
(***************************************************************************)
RECURSIVE AlongGet(_, _)
AlongGet(v, chain) ==
    IF chain = <<>> THEN Some(v)
    ELSE IF get(v, Head(chain)).tag = "None" THEN None
         ELSE AlongGet(get(v, Head(chain)).v, Tail(chain))

IndexCalled == access.fn = "index"

LastIndex == access.chain[Len(access.chain)]

C16_BracketsUndefinedWhereGetIsNone ==
    IndexCalled =>
        /\ get(access.from, LastIndex).tag = "None" => access.out = Undefined
        /\ get(access.from, LastIndex).tag = "Some" =>
              access.out = get(access.from, LastIndex).v
        /\ AlongGet(accValue, access.chain).tag = "None" => access.out = Undefined
        /\ AlongGet(accValue, access.chain).tag = "Some" =>
              access.out = AlongGet(accValue, access.chain).v

\* v[0]["a"]["b"] on an Object: absent from the first pair of brackets on.
C16_Witness ==
    /\ IndexCalled
    /\ accValue.t = "Object"
    /\ access.chain = <<IndexStep(0), KeyStep(KeyA), KeyStep(KeyB)>>
    /\ get(accValue, IndexStep(0)) = None
    /\ access.from = Undefined
    /\ access.out = Undefined

(***************************************************************************)
(* C17: on every Value each predicate is true exactly when the matching    *)
(* accessor returns a value, and an accessor returns a value only for its  *)
(* own variant, or its own numeric kind, and then the content held there.  *)
(***************************************************************************)
PredicatesCalled == access.fn = "predicates"

KindIs(v, kind) == v.t = "Number" /\ v.n.kind = kind

HoldsInteger(v) == v.t = "Number" /\ v.n.kind \in {"Int", "UInt"}

IntegerOf(v) == IF v.n.kind = "Int" THEN v.n.i ELSE v.n.u

C18_IsI64ForEveryIntegerInRange ==
    (PredicatesCalled /\ HoldsInteger(accValue)) =>
        IF I64_MIN <= IntegerOf(accValue) /\ IntegerOf(accValue) <= I64_MAX
        THEN access.is_i64 /\ access.as_i64 = Some(IntegerOf(accValue))
        ELSE ~access.is_i64 /\ access.as_i64 = None

(***************************************************************************)
(* C19: as_f64 returns a float for every Value that is a Number, the       *)
(* integer as a float for the integer kinds, and returns nothing only for  *)
(* a Value that is not a Number.                                           *)
(***************************************************************************)
FloatOf(v) == IF v.n.kind = "Float" THEN v.n.f ELSE Fin(2 * IntegerOf(v))

C19_AsF64ForEveryNumber ==
    PredicatesCalled =>
        IF accValue.t = "Number"
        THEN access.as_f64 = Some(FloatOf(accValue))
        ELSE access.as_f64 = None

GivenDecoded == decoded.done /\ text.mode = "given"

Document == ParseDocument(text.out.v).node

HasTag(name) == \E i \in 1 .. Len(name) : name[i] = ":"

IsScalarNode(node) == node.j \in {"bool", "str", "num"}

\* The decoding of the object that holds this member and no other.
MemberAlone(member) == from_str(preserve_order, JsonText(JObj(<<member>>)))

ObjectDecoded == GivenDecoded /\ ParseDocument(text.out.v).ok /\ Document.j = "obj"

TagText(name) == parse_tag(name).tag.v

IsSetTag(name) ==
    /\ HasTag(name)
    /\ parse_tag_descriptor(TagText(name)).tag = "Ok"
    /\ parse_tag_descriptor(TagText(name)).v.k = "S"

InnerTagText(name) == SubSeq(TagText(name), 3, Len(TagText(name)) - 1)

\* The decoding of one element under the tag T, as the member "a:T" of an object.
ElementAlone(tag, node) == MemberAlone(<<KeyA \o <<":">> \o tag, node>>)

ElementValue(tag, node) == ElementAlone(tag, node).v.m[1][2]

C22_SetDuplicatesRejected ==
    ObjectDecoded =>
        \A i \in 1 .. Len(Document.members) :
            LET name == Document.members[i][1]
                node == Document.members[i][2]
                inner == InnerTagText(name)
            IN  (/\ IsSetTag(name)
                 /\ node.j = "arr"
                 /\ \A e \in 1 .. Len(node.items) :
                       ElementAlone(inner, node.items[e]).tag = "Ok"
                 /\ \A j \in 1 .. Len(Document.members) :
                       j # i => MemberAlone(Document.members[j]).tag = "Ok") =>
                    IF \E e, f \in 1 .. Len(node.items) :
                          /\ e < f
                          /\ ValueEq(ElementValue(inner, node.items[e]),
                                     ElementValue(inner, node.items[f]))
                    THEN decoded.out = Err("DuplicateSetElement")
                    ELSE /\ decoded.out.tag = "Ok"
                         /\ MapGet(decoded.out.v.m, parse_tag(name).base_name).tag = "Some"
                         /\ MapGet(decoded.out.v.m, parse_tag(name).base_name).v.t = "Set"
                         /\ SetLen(MapGet(decoded.out.v.m, parse_tag(name).base_name).v.set)
                               = Len(node.items)

\* {"a:S<i>": [1, 2, 2]}
C22_Witness ==
    /\ GivenDecoded
    /\ text.out.v = JsonText(JObj(<<<<KeyA \o <<":", "S", "<", "i", ">">>,
                                      JArr(<<JOne, JTwo, JTwo>>)>>>>))
    /\ decoded.out = Err("DuplicateSetElement")

(***************************************************************************)
(* C23: decode is all-or-nothing.  When a member of the object fails to    *)
(* decode, whatever decoded before it, the call returns an error and no    *)
(* Value; a call that returns a Value returns the whole object, with every *)
(* member of the text in it.                                               *)
(***************************************************************************)
ErrorOnly(result) == result.tag = "Err" /\ DOMAIN result = {"tag", "msg"}

C23_DecodeAllOrNothing ==
    /\ GivenDecoded => (decoded.out.tag = "Ok" \/ ErrorOnly(decoded.out))
    /\ ObjectDecoded =>
          /\ (\E i \in 1 .. Len(Document.members) :
                  MemberAlone(Document.members[i]).tag = "Err")
               => ErrorOnly(decoded.out)
          /\ decoded.out.tag = "Ok" =>
                /\ decoded.out.v.t = "Object"
                /\ \A i \in 1 .. Len(Document.members) :
                      LET base_name == parse_tag(Document.members[i][1]).base_name
                      IN  /\ MapGet(decoded.out.v.m, base_name).tag = "Some"
                          /\ MapGet(decoded.out.v.m, base_name)
                                = MapGet(MemberAlone(Document.members[i]).v.m, base_name)

\* {"b:i": 2, "a:A<i>": [1, "a"]}: b and the first element decode, the
\* second element does not.
C23_Witness ==
    /\ GivenDecoded
    /\ text.out.v = JsonText(JObj(<<<<KeyB \o <<":", "i">>, JTwo>>,
                                    <<KeyA \o <<":", "A", "<", "i", ">">>,
                                      JArr(<<JOne, JStr(KeyA)>>)>>>>))
    /\ MemberAlone(<<KeyB \o <<":", "i">>, JTwo>>).tag = "Ok"
    /\ ElementAlone(<<"i">>, JOne).tag = "Ok"
    /\ ErrorOnly(decoded.out)

(***************************************************************************)
(* C24: iteration over a Set that is not mutated.  Two iterators yield the *)
(* same elements in the same order; an iterator yields no element twice    *)
(* and, once it has returned None, has yielded exactly len() elements;     *)
(* what next_back yields is the reverse of what next yields; and the       *)
(* serialization holds the elements in the order next yields them.         *)
(***************************************************************************)
MadeIters == {name \in IterNames : iters[name].made}

Yielded(name) == iters[name].forward \o iters[name].backward

C24_SetIterationStable ==
    /\ \A name \in MadeIters :
          /\ iters[name].len = SetLen(iterSet)
          /\ Len(Yielded(name)) <= SetLen(iterSet)
          /\ iters[name].ended => Len(Yielded(name)) = SetLen(iterSet)
          /\ \A i, j \in 1 .. Len(Yielded(name)) :
                i # j => ~ValueEq(Yielded(name)[i], Yielded(name)[j])
    /\ \A a, b \in MadeIters :
          /\ \A k \in 1 .. Len(iters[a].forward) :
                k <= Len(iters[b].forward) => iters[a].forward[k] = iters[b].forward[k]
          /\ \A k \in 1 .. Len(iters[a].backward) :
                k <= Len(iters[b].backward) => iters[a].backward[k] = iters[b].backward[k]
          /\ \A k \in 1 .. Len(iters[a].backward) :
                SetLen(iterSet) - k + 1 <= Len(iters[b].forward) =>
                    iters[a].backward[k] = iters[b].forward[SetLen(iterSet) - k + 1]
    /\ serialized.done =>
          /\ Len(serialized.seq) = SetLen(iterSet)
          /\ \A name \in MadeIters :
                /\ \A k \in 1 .. Len(iters[name].forward) :
                      serialized.seq[k] = iters[name].forward[k]
                /\ \A k \in 1 .. Len(iters[name].backward) :
                      serialized.seq[SetLen(iterSet) - k + 1] = iters[name].backward[k]

\* Three elements: one iterator run forward to its end, the other run
\* backward to its end, and the Set serialized.
C24_Witness ==
    /\ SetLen(iterSet) = 3
    /\ iters["first"].made /\ iters["first"].ended
    /\ iters["second"].made /\ iters["second"].ended
    /\ Len(iters["first"].forward) = 3
    /\ Len(iters["second"].backward) = 3
    /\ \A k \in 1 .. 3 : iters["second"].backward[k] = iters["first"].forward[4 - k]
    /\ serialized.done
    /\ serialized.seq = iters["first"].forward

(***************************************************************************)
(* C25: for every Value and every pointer string pointer_mut returns a     *)
(* value exactly when pointer does, and the two references designate the   *)
(* same node; as long as nothing is written through a reference the tree   *)
(* is the one the calls were made on.                                      *)
(***************************************************************************)
C25_PointerMutAgreesWithPointer ==
    /\ ~written.done => doc = written.before
    /\ PointerCalled =>
          /\ ptrCall.out = pointer(written.before, ptrCall.ptr)
          /\ ptrCall.out = pointer_mut(written.before, ptrCall.ptr)
          /\ pointer_mut(written.before, ptrCall.ptr).tag
                = pointer(written.before, ptrCall.ptr).tag
          /\ ptrCall.out.tag = "Some" =>
                NodeAt(written.before, pointer_mut(written.before, ptrCall.ptr).v)
                  = NodeAt(written.before, pointer(written.before, ptrCall.ptr).v)

\* pointer_mut("/a/b/1") into the nested document, nothing written.
C25_Witness ==
    /\ ptrCall.fn = "pointer_mut"
    /\ ptrCall.ptr = <<"/", "a", "/", "b", "/", "1">>
    /\ ptrCall.out.tag = "Some"
    /\ pointer(doc, ptrCall.ptr) = ptrCall.out
    /\ NodeAt(doc, ptrCall.out.v) = String(KeyAA)
    /\ ~written.done
    /\ doc = written.before

(***************************************************************************)
(* C26, amended: after the node at a resolvable pointer p is replaced by w *)
(* through pointer_mut, pointer(p) returns w; for every pointer q whose    *)
(* unescaped tokens neither extend those of p nor are a prefix of them,    *)
(* pointer(q) returns the same Value as before, or no value as before; the *)
(* containers on the path to p keep their lengths and their keys.  Without *)
(* a reference, nothing is written: the tree is as before.                 *)
(***************************************************************************)
PtrTokens(p) == IF p = <<>> THEN <<>> ELSE Tokens(p)

IsPrefix(s, t) == Len(s) <= Len(t) /\ SubSeq(t, 1, Len(s)) = s

Unrelated(p, q) ==
    ~IsPrefix(PtrTokens(p), PtrTokens(q)) /\ ~IsPrefix(PtrTokens(q), PtrTokens(p))

\* What pointer(q) returns on v: the Value it designates, or no value.
ValueAt(v, q) == IF pointer(v, q).tag = "Some" THEN Some(NodeAt(v, pointer(v, q).v)) ELSE None

SameShape(v, u) ==
    /\ v.t = u.t
    /\ v.t = "Array" => Len(v.a) = Len(u.a)
    /\ v.t = "Object" => MapKeys(v.m) = MapKeys(u.m)

C26_WriteThroughFrame ==
    /\ (ptrCall.fn = "pointer_mut" /\ ptrCall.out.tag = "None") =>
          ~written.done /\ doc = written.before
    /\ written.done =>
          /\ pointer(written.before, ptrCall.ptr) = ptrCall.out
          /\ pointer(doc, ptrCall.ptr) = ptrCall.out
          /\ ValueAt(doc, ptrCall.ptr) = Some(written.w)
          /\ \A q \in Pointers :
                Unrelated(ptrCall.ptr, q) => ValueAt(doc, q) = ValueAt(written.before, q)
          /\ \A k \in 0 .. Len(ptrCall.out.v) - 1 :
                SameShape(NodeAt(doc, SubSeq(ptrCall.out.v, 1, k)),
                          NodeAt(written.before, SubSeq(ptrCall.out.v, 1, k)))

(***************************************************************************)
(* C26, as stated: the same, for every pointer string q that neither       *)
(* extends the string p nor is a prefix of it.                             *)
(***************************************************************************)
C26_WriteThroughFrameByText ==
    written.done =>
        /\ ValueAt(doc, ptrCall.ptr) = Some(written.w)
        /\ \A q \in Pointers :
              (~IsPrefix(ptrCall.ptr, q) /\ ~IsPrefix(q, ptrCall.ptr)) =>
                  ValueAt(doc, q) = ValueAt(written.before, q)

\* The Array written over "aa" at /a/b/1: /a/b/0 is as before.
C26_Witness ==
    /\ written.done
    /\ ptrCall.ptr = <<"/", "a", "/", "b", "/", "1">>
    /\ written.w = Array(<<One, String(KeyA)>>)
    /\ ValueAt(written.before, ptrCall.ptr) = Some(String(KeyAA))
    /\ ValueAt(doc, ptrCall.ptr) = Some(written.w)
    /\ ValueAt(doc, <<"/", "a", "/", "b", "/", "0">>) = Some(String(KeyA))
    /\ doc # written.before

(***************************************************************************)
(* C27: every Number built by From for a signed or an unsigned integer, or *)
(* by visit_i64 or visit_u64, holds a negative value as the signed kind    *)
(* and a value that is not negative as the unsigned kind: the signed kind  *)
(* never holds a value >= 0, and a Number built from a signed integer that *)
(* is not negative has is_u64 true and is_i64 false.                       *)
(***************************************************************************)
IntegerCallHolds(slot) ==
    /\ slot.ctor \in {"from_signed", "visit_i64"} =>
          /\ HasNumber(slot)
          /\ IF slot.i < 0
             THEN /\ NumberOf(slot) = N_Int(slot.i)
                  /\ is_i64(NumberOf(slot)) /\ ~is_u64(NumberOf(slot))
             ELSE /\ NumberOf(slot) = N_UInt(slot.i)
                  /\ is_u64(NumberOf(slot)) /\ ~is_i64(NumberOf(slot))
    /\ slot.ctor \in {"from_unsigned", "visit_u64"} =>
          /\ HasNumber(slot)
          /\ NumberOf(slot) = N_UInt(slot.u)
    /\ HasNumber(slot) =>
          /\ NumberOf(slot).kind = "Int" => NumberOf(slot).i < 0
          /\ NumberOf(slot).kind = "UInt" => NumberOf(slot).u >= 0

Encoded == text.mode # "none"

\* decode(encode(v)) == v, for the encoding made.
RoundTripHolds ==
    /\ Encoded => text.out.tag = "Ok"
    /\ decoded.done => decoded.out.tag = "Ok" /\ ValueEq(decoded.out.v, codecValue)

RECURSIVE CarriedByTag(_), NeedsNoTag(_)

\* A value its tag describes: a scalar other than Undefined, an integer
\* within the signed range, an Object, a non-empty Array or Set whose
\* elements share one tag and are such values.
CarriedByTag(v) ==
    CASE v.t = "Undefined" -> FALSE
      [] v.t = "Number" -> is_f64(v.n) \/ is_i64(v.n) \/ v.n.u <= I64_MAX
      [] v.t = "Array" ->
            TagOf(v).tag = "Some" /\ \A i \in 1 .. Len(v.a) : CarriedByTag(v.a[i])
      [] v.t = "Set" ->
            TagOf(v).tag = "Some" /\ \A i \in 1 .. Len(v.set) : CarriedByTag(v.set[i])
      [] v.t = "Object" -> NeedsNoTag(v)
      [] OTHER -> TRUE

\* A value that is read without a tag: an Object each of whose members is
\* described by its tag or needs none, an Array of values that need none.
NeedsNoTag(v) ==
    CASE v.t = "Object" ->
            \A i \in 1 .. Len(v.m) :
                IF TagOf(v.m[i][2]).tag = "Some"
                THEN CarriedByTag(v.m[i][2])
                ELSE NeedsNoTag(v.m[i][2])
      [] v.t = "Array" -> \A i \in 1 .. Len(v.a) : NeedsNoTag(v.a[i])
      [] OTHER -> FALSE

IdleMap ==
    /\ component = "map"
    /\ mapA = MapNew
    /\ mapB = MapNew
    /\ firstInsA = <<>>
    /\ lastMap = NoOp
    /\ setA = SetNew
    /\ lastSet = NoOp

IdleOrder ==
    /\ valA = Undefined
    /\ valB = Undefined
    /\ valC = Undefined
    /\ ord = NotCompared

IdlePointer ==
    /\ doc = Undefined
    /\ ptrCall = NoCallYet
    /\ written = NotWritten(Undefined)

IdleCodec ==
    /\ codecValue = Undefined
    /\ text = NotEncoded
    /\ decoded = NotDecoded

IdleAccess ==
    /\ accValue = Undefined
    /\ access = NotAccessed

IdleIter ==
    /\ iterSet = SetNew
    /\ iters = [name \in IterNames |-> NoIter]
    /\ serialized = NotSerialized

InitNumberSpec ==
    /\ preserve_order = FALSE
    /\ InitNumber
    /\ IdleMap
    /\ IdleOrder
    /\ IdlePointer
    /\ IdleCodec
    /\ IdleAccess
    /\ IdleIter

InitMapSpec ==
    /\ preserve_order \in BOOLEAN
    /\ InitNumber
    /\ InitMap
    /\ IdleOrder
    /\ IdlePointer
    /\ IdleCodec
    /\ IdleAccess
    /\ IdleIter

InitOrderSpec ==
    /\ preserve_order \in BOOLEAN
    /\ InitNumber
    /\ IdleMap
    /\ InitOrder
    /\ IdlePointer
    /\ IdleCodec
    /\ IdleAccess
    /\ IdleIter

InitPointerSpec ==
    /\ preserve_order \in BOOLEAN
    /\ InitNumber
    /\ IdleMap
    /\ IdleOrder
    /\ InitPointer
    /\ IdleCodec
    /\ IdleAccess
    /\ IdleIter

InitCodecSpec ==
    /\ preserve_order \in BOOLEAN
    /\ InitNumber
    /\ IdleMap
    /\ IdleOrder
    /\ IdlePointer
    /\ InitCodec
    /\ IdleAccess
    /\ IdleIter

InitAccessSpec ==
    /\ preserve_order \in BOOLEAN
    /\ InitNumber
    /\ IdleMap
    /\ IdleOrder
    /\ IdlePointer
    /\ IdleCodec
    /\ InitAccess
    /\ IdleIter

InitDecodeSpec ==
    /\ preserve_order \in BOOLEAN
    /\ InitNumber
    /\ IdleMap
    /\ IdleOrder
    /\ IdlePointer
    /\ InitDecode
    /\ IdleAccess
    /\ IdleIter

InitIterSpec ==
    /\ preserve_order \in BOOLEAN
    /\ InitNumber
    /\ IdleMap
    /\ IdleOrder
    /\ IdlePointer
    /\ IdleCodec
    /\ IdleAccess
    /\ InitIter

SpecNumber == InitNumberSpec /\ [][NextNumber]_vars

SpecMap == InitMapSpec /\ [][NextMap]_vars

SpecOrder == InitOrderSpec /\ [][NextOrder]_vars

SpecPointer == InitPointerSpec /\ [][NextPointer]_vars

SpecCodec == InitCodecSpec /\ [][NextCodec]_vars

SpecAccess == InitAccessSpec /\ [][NextAccess]_vars

SpecDecode == InitDecodeSpec /\ [][NextDecode]_vars

SpecIter == InitIterSpec /\ [][NextIter]_vars

=============================================================================
